---- MODULE Spec2Model ----
(***************************************************************************)
(* A model of the paper aggregator: the document store (db.py), the        *)
(* enrichment functions and the ranker (generate.py).                      *)
(*                                                                         *)
(* Text is modelled by TLA+ strings.  Python's `kw in text` is substring   *)
(* containment, str.lower() maps A-Z to a-z character by character, and    *)
(* SQLite's comparison of TEXT values is the byte-wise comparison of the   *)
(* BINARY collation.  Optional[str] is a sequence of length 0 or 1.        *)
(***************************************************************************)
EXTENDS Integers, Sequences, FiniteSets, TLC

VARIABLES
    papers,     \* the rows of table `papers`, in rowid order
    ret,        \* what the last call of a store or dashboard operation returned
    doc,        \* the document handed to the enrichment functions
    max_chars,  \* the budget handed to create_summary
    out,        \* what the last enrichment function returned
    run,        \* the run of fetch.py or of a producer: its configuration, position and log
    now         \* the day datetime.now() reads

vars == <<papers, ret, doc, max_chars, out, run, now>>

----------------------------------------------------------------------------
(* Python and SQLite values *)

None == <<>>

Some(v) == <<v>>

Val(o) == o[1]

\* `x or y` of Python on Optional[str] whose strings are non-empty
OrElse(o, d) == IF o = None THEN d ELSE o

Max(a, b) == IF a >= b THEN a ELSE b

Min(a, b) == IF a <= b THEN a ELSE b

SumSeq(s) ==
    LET F[i \in 0..Len(s)] == IF i = 0 THEN 0 ELSE F[i - 1] + s[i]
    IN  F[Len(s)]

\* the character at position i (1-based) of string s
CharAt(s, i) == SubSeq(s, i, i)

\* s[i:] of Python with i a 0-based non-negative index
From(s, i) == SubSeq(s, i + 1, Len(s))

\* `k in t` of Python
Contains(t, k) ==
    \E i \in 1..(Len(t) - Len(k) + 1) : SubSeq(t, i, i + Len(k) - 1) = k

\* the printable ASCII characters the model's texts use, in code-point order
Ascii == " !#%&'()*+,-./0123456789:;<=>?@ABCDEFGHIJKLMNOPQRSTUVWXYZ[]_abcdefghijklmnopqrstuvwxyz"

Ord(c) == CHOOSE i \in 1..Len(Ascii) : CharAt(Ascii, i) = c

UpperToLower ==
    [A |-> "a", B |-> "b", C |-> "c", D |-> "d", E |-> "e", F |-> "f", G |-> "g",
     H |-> "h", I |-> "i", J |-> "j", K |-> "k", L |-> "l", M |-> "m", N |-> "n",
     O |-> "o", P |-> "p", Q |-> "q", R |-> "r", S |-> "s", T |-> "t", U |-> "u",
     V |-> "v", W |-> "w", X |-> "x", Y |-> "y", Z |-> "z"]

LowerChar(c) == IF c \in DOMAIN UpperToLower THEN UpperToLower[c] ELSE c

\* str.lower(): every character mapped, the two halves of the string in turn
RECURSIVE Lower(_)
Lower(s) ==
    IF Len(s) <= 1 THEN LowerChar(s)
    ELSE Lower(SubSeq(s, 1, Len(s) \div 2)) \o Lower(SubSeq(s, Len(s) \div 2 + 1, Len(s)))

\* a < b for two TEXT values under SQLite's BINARY collation (memcmp, then length)
RECURSIVE TextLess(_, _)
TextLess(a, b) ==
    IF b = "" THEN FALSE
    ELSE IF a = "" THEN TRUE
    ELSE IF CharAt(a, 1) = CharAt(b, 1) THEN TextLess(From(a, 1), From(b, 1))
    ELSE Ord(CharAt(a, 1)) < Ord(CharAt(b, 1))

----------------------------------------------------------------------------
(* db.py: the document store *)

CUTOFF_DATE == "2024-01-01"

\* datetime.now().strftime("%Y-%m-%d") when the run starts
Today == "2026-01-20"

\* the default of get_all_papers' limit (500 in the source), scaled to the
\* number of urls of the model so that a listing can exceed it
DefaultLimit == 2

\* two documents as producers build them: an RBI working paper and a journal article
RbiNote ==
    [title |-> "RBI cuts repo rate by 25 bps amid inflation concerns",
     authors |-> "RBI",
     abstract |-> "RBI Working Paper: RBI cuts repo rate by 25 bps amid inflation concerns",
     source |-> "RBI", category |-> "policy", is_india_specific |-> TRUE]

CasteStudy ==
    [title |-> "A Study of Rural Caste Dynamics in Village Governance",
     authors |-> "A. Rao",
     abstract |-> "",
     source |-> "World Development", category |-> "economics", is_india_specific |-> FALSE]

\* the documents a caller may hand to insert_paper: what is offered under which url
\* (the first url is offered with either content) and with which published_date
Offers ==
    { <<RbiNote, "https://rbi.org.in/wp/1">>, <<CasteStudy, "https://rbi.org.in/wp/1">>,
      <<RbiNote, "https://rbi.org.in/wp/2">>, <<CasteStudy, "https://doi.org/10.1000/j.3">> }

PublishedDates == {None, Some("2023-12-31"), Some("2024-01-01"), Some("2025-12-01")}

\* class Paper, without the id the store assigns
Paper(c, url, published_date) ==
    [title |-> c.title, authors |-> c.authors, abstract |-> c.abstract, url |-> url,
     source |-> c.source, category |-> c.category,
     published_date |-> published_date, fetched_date |-> None,
     is_india_specific |-> c.is_india_specific, is_global_important |-> FALSE]

Candidates == {Paper(o[1], o[2], d) : o \in Offers, d \in PublishedDates}

\* the row an INSERT writes: fetched_date defaults to the day of the insert
Row(paper) == [paper EXCEPT !.fetched_date = OrElse(paper.fetched_date, Some(now))]

\* the constraint, were it declared on column title
UniqueViolation_title(rows, paper) == \E i \in 1..Len(rows) : rows[i].title = paper.title

\* the UNIQUE constraint on column url
UniqueViolation(rows, paper) == \E i \in 1..Len(rows) : rows[i].url = paper.url

\* the statement, were it INSERT OR REPLACE: the stored row gives way to the new one
SqlInsert_replace(rows, paper) ==
    LET Other(row) == row.url # paper.url
    IN  [error |-> "none", rows |-> Append(SelectSeq(rows, Other), Row(paper))]

\* cursor.execute("INSERT INTO papers ..."): the new table, or IntegrityError
SqlInsert(rows, paper) ==
    IF UniqueViolation(rows, paper)
    THEN [error |-> "IntegrityError", rows |-> rows]
    ELSE [error |-> "none", rows |-> Append(rows, Row(paper))]

\* insert_paper: True when inserted; the except clause turns IntegrityError into False
insert_paper(rows, paper) ==
    LET r == SqlInsert(rows, paper)
    IN  IF r.error = "IntegrityError"
        THEN [rows |-> rows, value |-> FALSE, raised |-> "none"]
        ELSE [rows |-> r.rows, value |-> TRUE, raised |-> "none"]

\* published_date < ? of SQLite: NULL compares as unknown, which WHERE treats as false
SqlLess(d, bound) == d # None /\ TextLess(Val(d), bound)

\* published_date >= ?
SqlGreaterEq(d, bound) == d # None /\ ~TextLess(Val(d), bound)

\* the condition, were it published_date <= ?
Expired_inclusive(row) ==
    row.published_date # None /\ ~TextLess(CUTOFF_DATE, Val(row.published_date))

\* WHERE published_date IS NOT NULL AND published_date < ?
Expired(row) == row.published_date # None /\ SqlLess(row.published_date, CUTOFF_DATE)

\* cleanup_old_papers: DELETE ... and cursor.rowcount
cleanup_old_papers(rows) ==
    LET NotExpired(row) == ~Expired(row)
        kept == SelectSeq(rows, NotExpired)
    IN  [rows |-> kept, value |-> Len(rows) - Len(kept)]

\* ORDER BY x DESC of SQLite on an optional TEXT: a before b.  NULL sorts lowest.
DescBefore(a, b) ==
    IF a = None THEN FALSE
    ELSE IF b = None THEN TRUE
    ELSE TextLess(Val(b), Val(a))

\* ORDER BY published_date DESC, fetched_date DESC: row a must come before row b
OrderBefore(a, b) ==
    \/ DescBefore(a.published_date, b.published_date)
    \/ /\ a.published_date = b.published_date
       /\ DescBefore(a.fetched_date, b.fetched_date)

\* the WHERE clause get_all_papers builds from its arguments
Matches(row, source, category, india_only, recent_only) ==
    /\ recent_only =>
         (SqlGreaterEq(row.published_date, CUTOFF_DATE) \/ row.published_date = None)
    /\ source # None => row.source = Val(source)
    /\ category # None => row.category = Val(category)
    /\ india_only => (row.is_india_specific \/ row.is_global_important)

\* the orders in which SQLite may return `rows` under the ORDER BY: rows equal on
\* both keys come in an order the engine chooses
Orderings(rows) ==
    LET n == Len(rows)
        perms == {f \in [1..n -> 1..n] : \A i, j \in 1..n : i # j => f[i] # f[j]}
    IN  {[i \in 1..n |-> rows[f[i]]] : f \in
            {g \in perms : \A i, j \in 1..n : i < j => ~OrderBefore(rows[g[j]], rows[g[i]])}}

\* LIMIT ?
Limit(rows, limit) == SubSeq(rows, 1, Min(limit, Len(rows)))

\* get_all_papers: every list the query may return
get_all_papers(rows, source, category, india_only, limit, recent_only) ==
    LET Keep(row) == Matches(row, source, category, india_only, recent_only)
    IN  {Limit(o, limit) : o \in Orderings(SelectSeq(rows, Keep))}

\* get_paper_count
get_paper_count(rows) == Len(rows)

----------------------------------------------------------------------------
(* the store's operations as steps *)

InsertPaper(paper) ==
    LET r == insert_paper(papers, paper)
    IN  /\ papers' = r.rows
        /\ ret' = [op |-> "insert_paper", value |-> r.value, raised |-> r.raised,
                   paper |-> paper]
        /\ UNCHANGED <<doc, max_chars, out, run, now>>

CleanupOldPapers ==
    LET r == cleanup_old_papers(papers)
    IN  /\ papers' = r.rows
        /\ ret' = [op |-> "cleanup_old_papers", value |-> r.value, raised |-> "none"]
        /\ UNCHANGED <<doc, max_chars, out, run, now>>

GetAllPapers(source, india_only, recent_only) ==
    /\ \E l \in get_all_papers(papers, source, None, india_only, DefaultLimit, recent_only) :
         ret' = [op |-> "get_all_papers", value |-> l, raised |-> "none",
                 source |-> source, india_only |-> india_only,
                 recent_only |-> recent_only]
    /\ UNCHANGED <<papers, doc, max_chars, out, run, now>>

NoDoc == [title |-> "", abstract |-> "", category |-> "", source |-> "",
          published_date |-> None]

\* no fetch run is under way
NoRun == [phase |-> "idle"]

Init ==
    /\ now = Today
    /\ papers = <<>>
    /\ ret = [op |-> "none", value |-> FALSE, raised |-> "none"]
    /\ doc = NoDoc
    /\ max_chars = 0
    /\ out = [op |-> "none"]
    /\ run = NoRun

Next ==
    \/ \E paper \in Candidates : InsertPaper(paper)
    \/ CleanupOldPapers
    \/ \E source \in {None, Some("RBI")}, recent_only \in BOOLEAN :
         GetAllPapers(source, FALSE, recent_only)

Spec == Init /\ [][Next]_vars

----------------------------------------------------------------------------
(* calendar dates, read as the calendar reads them (not as text) *)

Digits == "0123456789"

DigitVal(c) == (CHOOSE i \in 1..10 : CharAt(Digits, i) = c) - 1

IsDigits(s) == \A i \in 1..Len(s) : \E j \in 1..10 : CharAt(Digits, j) = CharAt(s, i)

\* int(s) for a string of digits
RECURSIVE ParseInt(_)
ParseInt(s) ==
    IF s = "" THEN 0
    ELSE 10 * ParseInt(SubSeq(s, 1, Len(s) - 1)) + DigitVal(CharAt(s, Len(s)))

IsLeap(y) == (y % 4 = 0 /\ y % 100 # 0) \/ y % 400 = 0

DaysInMonth(y, m) ==
    IF m = 2 THEN (IF IsLeap(y) THEN 29 ELSE 28)
    ELSE IF m \in {4, 6, 9, 11} THEN 30 ELSE 31

\* the fields of a "YYYY-MM-DD" string
YearOf(s) == ParseInt(SubSeq(s, 1, 4))

MonthOf(s) == ParseInt(SubSeq(s, 6, 7))

DayOf(s) == ParseInt(SubSeq(s, 9, 10))

\* whether datetime.strptime(s, "%Y-%m-%d") succeeds, for the zero-padded
\* ten-character strings the producers write
Parses(s) ==
    /\ Len(s) = 10
    /\ IsDigits(SubSeq(s, 1, 4)) /\ CharAt(s, 5) = "-"
    /\ IsDigits(SubSeq(s, 6, 7)) /\ CharAt(s, 8) = "-"
    /\ IsDigits(SubSeq(s, 9, 10))
    /\ MonthOf(s) \in 1..12
    /\ DayOf(s) \in 1..DaysInMonth(YearOf(s), MonthOf(s))

\* days from 1970-01-01 to the date s names (negative before it)
DayNumber(s) ==
    LET y == YearOf(s)
        m == MonthOf(s)
        d == DayOf(s)
        yy == IF m <= 2 THEN y - 1 ELSE y
        era == yy \div 400
        yoe == yy - era * 400
        mp == IF m > 2 THEN m - 3 ELSE m + 9
        doy == (153 * mp + 2) \div 5 + d - 1
        doe == yoe * 365 + yoe \div 4 - yoe \div 100 + doy
    IN  era * 146097 + doe - 719468

----------------------------------------------------------------------------
(* daily_brief_coverage.py: what the newsletter has covered *)

\* the index of the last character of the word that starts at index i of s
WordEnd(s, i) ==
    CHOOSE j \in i..Len(s) :
        /\ \A k \in i..j : CharAt(s, k) # " "
        /\ (j = Len(s) \/ CharAt(s, j + 1) = " ")

\* set(s.split()), for text whose only whitespace is the space
WordSet(s) ==
    {SubSeq(s, i, WordEnd(s, i)) :
        i \in {k \in 1..Len(s) : CharAt(s, k) # " " /\ (k = 1 \/ CharAt(s, k - 1) = " ")}}

\* topics and keywords from covered stories
COVERED_TOPICS ==
    <<"rbi rule change", "expected credit loss", "ecl framework", "bank provisioning",
      "rbi bulletin", "non-food credit", "bank lending slowdown", "rbi annual report",
      "corporate borrowing", "market-based funding", "indian banking 2025",
      "gross npa 2.2%", "bad loans multi-decade low", "rbi rate cuts 100 basis points",
      "monetary policy transmission", "acquisition financing", "leveraged buyout",
      "lbo", "bank m&a lending", "ipo financing limits", "lending against shares",
      "meesho ipo", "meesho", "value commerce", "hdb financial ipo", "hdb financial",
      "hdfc bank nbfc", "amagi media labs ipo", "amagi", "shadowfax ipo", "shadowfax",
      "logistics ipo", "24-hour trading", "24x exchange", "stock market 24/7",
      "results season", "quarterly results", "quick commerce", "10-minute delivery",
      "q-commerce", "ems business", "electronics manufacturing", "lab-grown diamonds",
      "titan diamonds", "de beers", "lab monkeys", "pharmaceutical testing",
      "venezuelan oil", "indian refineries", "oil imports", "coal ipo", "india coal",
      "nike", "just do it", "sportswear", "outlook 2026", "2026 predictions",
      "ten questions 2026", "india gdp 2025", "india growth forecast",
      "inflation cooling", "cpi inflation", "january inflation",
      "free trade agreements", "india uk fta", "india oman fta", "tariffs",
      "us tariffs india", "us china ai", "ai competition", "hyperscalers",
      "ai infrastructure", "microfinance stress", "microfinance npa", "mfi portfolio",
      "export incentive scheme", "rodtep", "remission of duties">>

\* specific article titles
COVERED_ARTICLES ==
    <<"Can Shadowfax deliver?", "Just (can't) do it?",
      "What really separates US and Chinese AI",
      "Why Venezuelan oil needs Indian refineries", "Inside Amagi Media Labs IPO",
      "No middle ground in the EMS business",
      "Indian Banking in 2025: the year in review", "Outlook 2026",
      "Titan changes its mind about lab-grown diamonds",
      "Why are prices for lab monkeys suddenly rising?",
      "Is 10-Minute delivery just an Indian story?",
      "A new IPO lays out India's coal puzzle",
      "A small rule change by the RBI, a big leap for Indian banks",
      "RBI Bulletin: Interesting charts on the Indian economy",
      "The RBI just silently made some huge moves",
      "Digging through the RBI annual report",
      "Indian banks: a little cleaner, a little meaner",
      "What 2025 Holds for India's Economy and Markets", "How does one score the RBI?",
      "Big trends from this results season",
      "Indian banks want a shot at funding business takeovers", "Inside Meesho's IPO",
      "HDB Financial's IPO", "Stock Market 24/7: The future of trading is here!",
      "Ten Questions for 2026", "India's Inflation is Cooling Down">>

common_words ==
    {"the", "a", "an", "in", "on", "of", "for", "to", "and", "is", "are", "was", "were"}

\* the share of an article's significant words that the title has, as the pair
\* (numerator, denominator) of len(article_words & title_words) / len(article_words)
Overlap(article, title_lower) ==
    LET article_words == WordSet(Lower(article)) \ common_words
        title_words == WordSet(title_lower) \ common_words
    IN  <<Cardinality(article_words \cap title_words), Cardinality(article_words)>>

\* the check, were the similar titles not looked at
is_topic_covered_phrases(title, abstract) ==
    LET text == Lower(title \o " " \o abstract)
    IN  \E i \in 1..Len(COVERED_TOPICS) : Contains(text, Lower(COVERED_TOPICS[i]))

\* the check, were half of the words of a registered title enough
is_topic_covered_at_half(title, abstract) ==
    LET text == Lower(title \o " " \o abstract)
        title_lower == Lower(title)
    IN  \/ \E i \in 1..Len(COVERED_TOPICS) : Contains(text, Lower(COVERED_TOPICS[i]))
        \/ \E i \in 1..Len(COVERED_ARTICLES) :
             LET o == Overlap(COVERED_ARTICLES[i], title_lower)
             IN  o[2] > 0 /\ 2 * o[1] >= o[2]

\* is_topic_covered
is_topic_covered(title, abstract) ==
    LET text == Lower(title \o " " \o abstract)
        title_lower == Lower(title)
    IN  \/ \E i \in 1..Len(COVERED_TOPICS) : Contains(text, Lower(COVERED_TOPICS[i]))
        \/ \E i \in 1..Len(COVERED_ARTICLES) :
             LET o == Overlap(COVERED_ARTICLES[i], title_lower)
             IN  o[2] > 0 /\ 2 * o[1] > o[2]

\* the penalty, were it half as large
get_coverage_penalty_half(title, abstract) ==
    IF is_topic_covered(title, abstract) THEN -25 ELSE 0

\* get_coverage_penalty
get_coverage_penalty(title, abstract) ==
    IF is_topic_covered(title, abstract) THEN -50 ELSE 0

----------------------------------------------------------------------------
(* generate.py: topics and scores *)

\* the number of keywords of the list kws that occur in text
Count(text, kws) == Cardinality({i \in 1..Len(kws) : Contains(text, kws[i])})

\* any(kw in text for kw in kws)
AnyIn(text, kws) == \E i \in 1..Len(kws) : Contains(text, kws[i])

\* the topic definitions, in the order of the dict
topic_keywords ==
    << [topic |-> "Monetary Policy",
       keywords |->
         <<"monetary policy", "interest rate", "inflation", "central bank", "rbi",
           "reserve bank", "repo rate", "liquidity", "money supply",
           "quantitative easing", "currency", "exchange rate", "forex", "rupee",
           "depreciation", "appreciation">>],
       [topic |-> "Fiscal Policy",
       keywords |->
         <<"fiscal policy", "fiscal deficit", "budget", "government spending",
           "public debt", "government debt", "taxation", "tax reform", "gst", "subsidy",
           "public finance", "sovereign", "debt sustainability">>],
       [topic |-> "Trade & FDI",
       keywords |->
         <<"trade policy", "export", "import", "tariff", "fdi",
           "foreign direct investment", "foreign investment", "trade deficit",
           "current account", "wto", "bilateral trade", "trade agreement",
           "globalization", "supply chain", "global value chain">>],
       [topic |-> "Banking & Finance",
       keywords |->
         <<"banking", "bank", "credit", "loan", "npa", "non-performing",
           "financial market", "capital market", "stock market", "equity", "bond",
           "mutual fund", "insurance", "fintech", "payment", "upi", "digital payment",
           "financial inclusion", "microfinance", "nbfc", "sebi", "nse", "bse", "ipo",
           "securities">>],
       [topic |-> "Labor & Employment",
       keywords |->
         <<"labor", "labour", "employment", "unemployment", "wage", "job", "worker",
           "workforce", "informal sector", "gig economy", "skill", "human capital",
           "migration", "remittance", "labor market", "minimum wage">>],
       [topic |-> "Development",
       keywords |->
         <<"poverty", "inequality", "development", "gdp", "economic growth",
           "per capita", "living standard", "welfare", "social protection",
           "inclusive growth", "sustainable development", "sdg", "middle income">>],
       [topic |-> "Corporate & Management",
       keywords |->
         <<"corporate", "firm", "company", "governance", "board", "ceo", "shareholder",
           "merger", "acquisition", "m&a", "startup", "entrepreneur", "sme", "msme",
           "business", "strategy", "competition", "market structure", "productivity">>],
       [topic |-> "Environment & Energy",
       keywords |->
         <<"climate", "carbon", "emission", "green", "renewable", "solar", "wind",
           "energy", "electricity", "coal", "oil", "gas", "pollution", "environmental",
           "sustainability", "net zero", "paris agreement", "esg">>],
       [topic |-> "Education",
       keywords |->
         <<"education", "school", "college", "university", "student", "teacher",
           "literacy", "enrollment", "dropout", "learning", "higher education",
           "vocational", "skill development", "academic">>],
       [topic |-> "Health",
       keywords |->
         <<"health", "healthcare", "hospital", "medical", "disease", "mortality",
           "morbidity", "nutrition", "sanitation", "pharmaceutical", "drug", "vaccine",
           "covid", "pandemic", "insurance health">>],
       [topic |-> "Agriculture & Rural",
       keywords |->
         <<"agriculture", "farm", "farmer", "crop", "food", "rural", "msp",
           "procurement", "irrigation", "land", "agrarian", "agri", "livestock",
           "dairy", "fishery", "food security", "pds">>],
       [topic |-> "Infrastructure",
       keywords |->
         <<"infrastructure", "road", "highway", "railway", "port", "airport",
           "transport", "logistics", "construction", "real estate", "housing", "urban",
           "smart city", "metro", "connectivity">>],
       [topic |-> "Technology & Digital",
       keywords |->
         <<"technology", "digital", "internet", "broadband", "telecom", "ai",
           "artificial intelligence", "machine learning", "automation", "robot", "data",
           "e-commerce", "platform", "it sector", "software", "startup tech">>] >>

\* the result, were the fallback topic appended to every result
classify_topic_with_general(title, abstract) ==
    LET text == Lower(title \o " " \o abstract)
        hit == SelectSeq(topic_keywords, LAMBDA t : AnyIn(text, t.keywords))
    IN  [i \in 1..Len(hit) |-> hit[i].topic] \o <<"General Economics">>

\* classify_topic: one entry for each topic with a keyword in the text, in the
\* order of the dict; ["General Economics"] when there is none
classify_topic(title, abstract) ==
    LET text == Lower(title \o " " \o abstract)
        hit == SelectSeq(topic_keywords, LAMBDA t : AnyIn(text, t.keywords))
        topics == [i \in 1..Len(hit) |-> hit[i].topic]
    IN  IF topics = <<>> THEN <<"General Economics">> ELSE topics

high_relevance ==
    <<"gdp", "inflation", "monetary policy", "fiscal policy", "interest rate",
      "central bank", "rbi", "reserve bank", "sebi", "stock market", "equity", "bond",
      "credit", "banking", "financial market", "capital market", "trade deficit",
      "current account", "foreign exchange", "forex", "rupee", "investment",
      "portfolio", "asset price", "liquidity", "monetary", "macroeconomic",
      "microeconomic", "econometric", "regression", "price", "pricing", "valuation",
      "returns", "volatility", "risk premium", "nifty", "sensex", "bse", "nse", "ipo",
      "fdi", "fii", "mutual fund", "corporate finance", "capital structure", "dividend",
      "earnings", "profit", "revenue", "market efficiency", "arbitrage", "derivative",
      "option", "futures", "hedge", "swap", "yield", "coupon", "treasury",
      "fiscal deficit", "government debt", "public debt", "taxation", "gst", "tariff",
      "export", "import", "trade policy", "wto", "bilateral trade">>

medium_relevance ==
    <<"firm", "company", "enterprise", "startup", "entrepreneur", "sme", "industry",
      "manufacturing", "service sector", "productivity", "efficiency", "performance",
      "growth", "development", "strategy", "competition", "market share", "innovation",
      "technology", "digital", "supply chain", "logistics", "operations", "management",
      "governance", "board", "ceo", "executive", "shareholder", "stakeholder", "merger",
      "acquisition", "m&a", "restructuring", "bankruptcy", "insolvency", "regulation",
      "compliance", "policy reform", "liberalization", "privatization", "subsidy",
      "incentive", "economic zone", "corridor">>

low_relevance ==
    <<"caste", "gender equality", "social identity", "ethnicity", "religion",
      "discrimination", "inequality", "marginalized", "vulnerable", "tribal", "dalit",
      "backward class", "reservation", "affirmative action", "migration", "diaspora",
      "refugee", "displacement", "resettlement", "health outcome", "mortality",
      "morbidity", "nutrition", "sanitation", "education access", "literacy",
      "school enrollment", "dropout", "child", "adolescent", "elderly", "aging",
      "demographic transition", "household survey", "ethnographic", "qualitative study",
      "interview", "focus group", "participatory", "community-based", "grassroots",
      "ngo", "civil society", "activism", "social movement", "protest",
      "environmental justice", "climate vulnerability", "disaster", "cultural",
      "tradition", "ritual", "marriage", "kinship", "family">>

high_value_sources == {"RBI", "SEBI", "NIPFP", "NCAER", "IGIDR", "NBER"}

\* the score of calculate_relevance_score before it is clamped
relevance_sum(title, abstract, category, source) ==
    LET text == Lower(title \o " " \o abstract)
    IN  50 + 15 * Count(text, high_relevance)
           + 8 * Count(text, medium_relevance)
           - 10 * Count(text, low_relevance)
           + (CASE category = "finance" -> 20
                [] category = "economics" -> 15
                [] category = "management" -> 10
                [] category = "policy" -> 5
                [] OTHER -> 0)
           + (IF source \in high_value_sources THEN 10 ELSE 0)

\* the function, were the sum returned as it is
calculate_relevance_score_unclamped(title, abstract, category, source) ==
    relevance_sum(title, abstract, category, source)

\* calculate_relevance_score
calculate_relevance_score(title, abstract, category, source) ==
    Max(0, Min(100, relevance_sum(title, abstract, category, source)))


credible_sources ==
    ("RBI" :> 40) @@ ("SEBI" :> 35) @@ ("NIPFP" :> 30) @@ ("NCAER" :> 30) @@
    ("NBER" :> 35) @@ ("IGIDR" :> 25) @@ ("ISI Delhi" :> 25) @@ ("ICRIER" :> 25) @@
    ("CPR" :> 20)

db_topics ==
    <<"Banking & Finance", "Monetary Policy", "Fiscal Policy", "Trade & FDI",
      "Corporate & Management", "Technology & Digital", "Infrastructure">>

story_keywords ==
    <<"india", "indian", "rbi", "sebi", "nifty", "sensex", "rupee", "bank", "credit",
      "loan", "npa", "fintech", "upi", "digital payment", "inflation", "interest rate",
      "monetary policy", "gdp", "growth", "trade", "export", "import", "fdi", "tariff",
      "startup", "ipo", "equity", "stock", "market", "corporate", "firm", "company",
      "governance", "policy", "reform", "regulation", "gst", "energy", "coal", "oil",
      "renewable", "green", "manufacturing", "services", "employment", "wage">>

niche_keywords ==
    <<"ethnographic", "anthropological", "qualitative study", "focus group",
      "participatory", "grassroots">>

\* the bonus for the age of the document, in days, on the day of the run
RecencyBonus(published_date) ==
    IF published_date = None \/ published_date = Some("") THEN 0
    ELSE IF ~Parses(Val(published_date)) THEN 0
    ELSE LET days_old == DayNumber(now) - DayNumber(Val(published_date))
         IN  IF days_old < 30 THEN 25
             ELSE IF days_old < 90 THEN 15
             ELSE IF days_old < 180 THEN 5 ELSE 0

\* what calculate_daily_brief_score adds to the coverage penalty: the source, topic,
\* keyword, recency and title bonuses and the niche penalty
daily_brief_bonuses(paper) ==
    LET text == paper.title \o " " \o paper.abstract
        source == paper.source
        topics == paper.topics
    IN  (IF source \in DOMAIN credible_sources THEN credible_sources[source] ELSE 10)
        + 15 * Cardinality({i \in 1..Len(topics) :
                              \E j \in 1..Len(db_topics) : topics[i] = db_topics[j]})
        + Min(Count(text, story_keywords) * 3, 30)
        + RecencyBonus(paper.published_date)
        + (IF 30 <= Len(paper.title) /\ Len(paper.title) <= 100 THEN 5 ELSE 0)
        - (IF AnyIn(text, niche_keywords) THEN 15 ELSE 0)

\* the score of calculate_daily_brief_score before the floor.  The coverage check
\* lowercases the text itself; the story and niche keywords are looked up in the
\* text as it is written.
daily_brief_sum(paper) ==
    get_coverage_penalty(paper.title, paper.abstract) + daily_brief_bonuses(paper)

\* the function, were the sum returned as it is
calculate_daily_brief_score_unfloored(paper) ==
    [value |-> daily_brief_sum(paper),
     is_covered |-> is_topic_covered(paper.title, paper.abstract)]

\* calculate_daily_brief_score: the value returned and the is_covered entry it
\* writes into the paper
calculate_daily_brief_score(paper) ==
    [value |-> Max(0, daily_brief_sum(paper)),
     is_covered |-> is_topic_covered(paper.title, paper.abstract)]


ipo_keywords ==
    <<"ipo", "initial public offering", "listing", "going public", "business model",
      "unit economics", "profitability", "margins", "revenue growth", "market share",
      "competitive advantage">>

policy_keywords ==
    <<"rbi", "reserve bank", "sebi", "monetary policy", "repo rate",
      "interest rate cut", "rate hike", "inflation target", "mpc", "regulatory change",
      "policy reform", "npa", "bad loan", "capital adequacy", "liquidity",
      "forex reserve">>

banking_keywords ==
    <<"bank", "banking sector", "credit growth", "deposit", "lending", "loan", "nbfc",
      "financial inclusion", "digital payment", "upi", "fintech", "insurance">>

market_keywords ==
    <<"stock market", "equity", "nifty", "sensex", "bse", "nse", "mutual fund", "fii",
      "dii", "market cap", "valuation", "trading", "investor", "shareholder",
      "dividend", "m&a", "merger", "acquisition", "takeover">>

company_keywords ==
    <<"company", "firm", "corporate", "startup", "unicorn", "reliance", "tata", "adani",
      "infosys", "hdfc", "icici", "industry", "sector", "market leader", "disruption">>

trade_keywords ==
    <<"tariff", "trade war", "export", "import", "fdi", "foreign investment",
      "supply chain", "manufacturing", "china", "us", "oil price", "crude", "commodity">>

env_keywords ==
    <<"emission", "carbon", "climate change", "sustainable development",
      "environmental impact", "pollution", "green transition", "renewable energy",
      "solar panel", "wind energy", "esg">>

academic_keywords ==
    <<"theoretical framework", "literature review", "empirical analysis", "regression",
      "econometric", "hypothesis", "methodology", "sample size",
      "statistical significance", "p-value">>

dev_keywords ==
    <<"poverty alleviation", "social welfare", "rural development", "education policy",
      "health outcome", "gender equality", "inequality", "marginalized",
      "vulnerable population">>

\* the score before the floor, were the environment penalty decided on the score
\* after the source adjustments
daily_brief_fit_sum_env_last(paper) ==
    LET title == Lower(paper.title)
        abstract == Lower(paper.abstract)
        source == paper.source
        text == title \o " " \o abstract
        positive == 30 * Count(text, ipo_keywords) + 25 * Count(text, policy_keywords)
                    + 20 * Count(text, banking_keywords)
                    + 20 * Count(text, market_keywords)
                    + 15 * Count(text, company_keywords)
                    + 15 * Count(text, trade_keywords)
        env_count == Count(text, env_keywords)
        after_topics == positive - 15 * Count(text, academic_keywords)
                                  - 15 * Count(text, dev_keywords)
        after_source == after_topics
                        + (CASE source = "RBI" -> 40
                             [] source = "SEBI" -> 35
                             [] source \in {"NBER", "Quarterly Journal of Economics"} -> 25
                             [] source \in {"NIPFP", "NCAER"} -> 15
                             [] source \in {"IGIDR", "ISI Delhi"} -> 5
                             [] OTHER -> 0)
        after_env == IF env_count > 0 /\ after_source < 30
                     THEN after_source - env_count * 20 ELSE after_source
        after_academic == IF source \in {"CPR", "Ashoka CEDA"} /\ after_env < 20
                          THEN after_env - 10 ELSE after_env
    IN  IF Contains(title, "editorial") \/ Contains(title, "editor")
        THEN after_academic - 100 ELSE after_academic

\* the score of calculate_daily_brief_fit_score before the floor
daily_brief_fit_sum(paper) ==
    LET title == Lower(paper.title)
        abstract == Lower(paper.abstract)
        source == paper.source
        text == title \o " " \o abstract
        positive == 30 * Count(text, ipo_keywords) + 25 * Count(text, policy_keywords)
                    + 20 * Count(text, banking_keywords)
                    + 20 * Count(text, market_keywords)
                    + 15 * Count(text, company_keywords)
                    + 15 * Count(text, trade_keywords)
        env_count == Count(text, env_keywords)
        after_env == IF env_count > 0 /\ positive < 30
                     THEN positive - env_count * 20 ELSE positive
        after_topics == after_env - 15 * Count(text, academic_keywords)
                                  - 15 * Count(text, dev_keywords)
        after_source == after_topics
                        + (CASE source = "RBI" -> 40
                             [] source = "SEBI" -> 35
                             [] source \in {"NBER", "Quarterly Journal of Economics"} -> 25
                             [] source \in {"NIPFP", "NCAER"} -> 15
                             [] source \in {"IGIDR", "ISI Delhi"} -> 5
                             [] OTHER -> 0)
        after_academic == IF source \in {"CPR", "Ashoka CEDA"} /\ after_source < 20
                          THEN after_source - 10 ELSE after_source
    IN  IF Contains(title, "editorial") \/ Contains(title, "editor")
        THEN after_academic - 100 ELSE after_academic

\* the function, were the floor at -100
calculate_daily_brief_fit_score_floor100(paper) == Max(-100, daily_brief_fit_sum(paper))

\* calculate_daily_brief_fit_score
calculate_daily_brief_fit_score(paper) == Max(-50, daily_brief_fit_sum(paper))

topic_priorities ==
    ("Monetary Policy" :> 20) @@ ("Fiscal Policy" :> 20) @@
    ("Banking & Finance" :> 20) @@ ("Trade & FDI" :> 20) @@
    ("Corporate & Management" :> 20) @@ ("Technology & Digital" :> 20) @@
    ("General Economics" :> 15) @@ ("Development" :> 10) @@ ("Infrastructure" :> 10) @@
    ("Labor & Employment" :> 10) @@ ("Agriculture & Rural" :> 5) @@
    ("Environment & Energy" :> -5) @@ ("Education" :> -10) @@ ("Health" :> -15)

\* the score, were it the sum of the priorities
get_topic_priority_score_sum(topics) ==
    SumSeq([i \in 1..Len(topics) |->
               IF topics[i] \in DOMAIN topic_priorities THEN topic_priorities[topics[i]]
               ELSE 0])

\* get_topic_priority_score: the highest priority among the topics, 0 for none
get_topic_priority_score(topics) ==
    IF topics = <<>> THEN 0
    ELSE LET prio(t) == IF t \in DOMAIN topic_priorities THEN topic_priorities[t] ELSE 0
         IN  CHOOSE m \in {prio(topics[i]) : i \in 1..Len(topics)} :
                 \A i \in 1..Len(topics) : prio(topics[i]) <= m

open_access_sources ==
    {"RBI", "SEBI", "NIPFP", "NCAER", "NBER", "ICRIER", "CPR", "Ashoka CEDA",
     "IIM Ahmedabad", "IGIDR", "ISI Delhi", "Vikalpa", "IIMB Management Review"}

open_access_patterns ==
    <<"nber.org", "rbi.org.in", "sebi.gov.in", "nipfp.org.in", "ncaer.org",
      "icrier.org", "cprindia.org", "ashoka.edu.in", "iima.ac.in", "igidr.ac.in",
      "isid.ac.in", "ideas.repec.org">>

\* is_open_access
is_open_access(source, url) ==
    \/ source \in open_access_sources
    \/ url # "" /\ AnyIn(Lower(url), open_access_patterns)

----------------------------------------------------------------------------
(* generate.py: the summary of an abstract *)
(*                                                                         *)
(* The abstracts of the model are written with letters, the space and the  *)
(* marks . ! ? : ( ) - only.  On such text the patterns of create_summary  *)
(* that need a comma or a digit (the journal metadata, EarlyView, Ahead of *)
(* Print and Publication date patterns) match nothing and are left out;    *)
(* \s is the space.                                                        *)

\* s[:n] of Python, n of either sign
PySlice(s, n) ==
    IF n >= 0 THEN SubSeq(s, 1, Min(n, Len(s))) ELSE SubSeq(s, 1, Max(Len(s) + n, 0))

\* the number of characters at the start of s that are in the string chars
LeadingRun(s, chars) ==
    CHOOSE k \in 0..Len(s) :
        /\ \A i \in 1..k : Contains(chars, CharAt(s, i))
        /\ (k = Len(s) \/ ~Contains(chars, CharAt(s, k + 1)))

\* the number of characters at the end of s that are spaces
TrailingSpaces(s) ==
    CHOOSE k \in 0..Len(s) :
        /\ \A i \in (Len(s) - k + 1)..Len(s) : CharAt(s, i) = " "
        /\ (k = Len(s) \/ CharAt(s, Len(s) - k) # " ")

\* str.strip()
Strip(s) ==
    LET t == SubSeq(s, 1, Len(s) - TrailingSpaces(s))
    IN  From(t, LeadingRun(t, " "))

\* re.match of a literal prefix under re.IGNORECASE
StartsWithI(s, prefix) ==
    Len(s) >= Len(prefix) /\ Lower(SubSeq(s, 1, Len(prefix))) = Lower(prefix)

\* the labels of the first removal pattern
working_paper_labels ==
    <<"RBI Working Paper", "NIPFP Working Paper", "NCAER Publication", "SEBI Research",
      "IGIDR Working Paper", "ISI Delhi Discussion Paper", "CPR Working Paper",
      "ICRIER Working Paper", "Ashoka University CEDA", "IIM Ahmedabad Working Paper">>

\* re.sub(r'^(label|...):\s*', '', text)
RemoveLabel(text) ==
    IF \E i \in 1..Len(working_paper_labels) :
           StartsWithI(text, working_paper_labels[i] \o ":")
    THEN LET i == CHOOSE i \in 1..Len(working_paper_labels) :
                      /\ StartsWithI(text, working_paper_labels[i] \o ":")
                      /\ \A j \in 1..(i - 1) :
                             ~StartsWithI(text, working_paper_labels[j] \o ":")
             rest == From(text, Len(working_paper_labels[i]) + 1)
         IN  From(rest, LeadingRun(rest, " "))
    ELSE text

\* re.sub(r'^word[:\s]*', '', text)
RemoveHeading(text, word) ==
    IF StartsWithI(text, word)
    THEN LET rest == From(text, Len(word)) IN From(rest, LeadingRun(rest, ": "))
    ELSE text

\* re.sub(r'^Author\(s\):\s*[^\.]+\.\s*', '', text): the listing runs to the first
\* full stop, which must not come first
RemoveAuthors(text) ==
    IF StartsWithI(text, "Author(s):")
    THEN LET rest == From(text, Len("Author(s):"))
             stops == {i \in 1..Len(rest) : CharAt(rest, i) = "."}
         IN  IF stops = {} \/ 1 \in stops THEN text
             ELSE LET first == CHOOSE i \in stops : \A j \in stops : i <= j
                      after == From(rest, first)
                  IN  From(after, LeadingRun(after, " "))
    ELSE text

\* whether ' '.join(s.split()) keeps the character at index i of s, whose last
\* word ends at index last: a space is kept after a word that is not the last
Kept(s, i, last) ==
    \/ CharAt(s, i) # " "
    \/ i > 1 /\ i < last /\ CharAt(s, i - 1) # " "

\* the kept characters among those at the indices lo..hi of s
RECURSIVE SqueezeRange(_, _, _, _)
SqueezeRange(s, lo, hi, last) ==
    IF lo > hi THEN ""
    ELSE IF lo = hi THEN (IF Kept(s, lo, last) THEN CharAt(s, lo) ELSE "")
    ELSE LET mid == (lo + hi) \div 2
         IN  SqueezeRange(s, lo, mid, last) \o SqueezeRange(s, mid + 1, hi, last)

\* ' '.join(s.split())
Squeeze(s) == SqueezeRange(s, 1, Len(s), Len(s) - TrailingSpaces(s))

\* re.split(r'(?<=[.!?])\s+', text) for a squeezed text: the text is cut at each
\* space that follows a full stop, an exclamation or a question mark
RECURSIVE Sentences(_)
Sentences(text) ==
    LET cuts == {k \in 2..Len(text) :
                    CharAt(text, k) = " " /\ Contains(".!?", CharAt(text, k - 1))}
    IN  IF cuts = {} THEN <<text>>
        ELSE LET first == CHOOSE k \in cuts : \A j \in cuts : k <= j
             IN  <<SubSeq(text, 1, first - 1)>> \o Sentences(From(text, first))

priority_keywords ==
    <<"we find", "we show", "results suggest", "findings indicate", "this paper",
      "this study", "we examine", "we analyze", "we investigate", "evidence suggests",
      "results show", "data shows", "analysis reveals", "conclude", "implication",
      "impact", "effect", "significant", "increase", "decrease", "growth", "decline",
      "change">>

\* the score of the sentence at index i (from 0) of the abstract
SentenceScore(i, sent) ==
    2 * Count(Lower(sent), priority_keywords)
    + (IF i < 2 THEN 1 ELSE 0)
    - (IF Len(sent) < 40 THEN 1 ELSE 0)

\* scored_sentences after the first n sentences: the pairs (score, sent)
RECURSIVE ScoreSentences(_, _)
ScoreSentences(sentences, n) ==
    IF n = 0 THEN <<>>
    ELSE Append(ScoreSentences(sentences, n - 1),
                <<SentenceScore(n - 1, sentences[n]), sentences[n]>>)

\* the list sorted by falling score, with the pair x put behind the pairs of its score
InsertByScore(sorted, x) ==
    LET k == Cardinality({i \in 1..Len(sorted) : sorted[i][1] >= x[1]})
    IN  SubSeq(sorted, 1, k) \o <<x>> \o SubSeq(sorted, k + 1, Len(sorted))

\* scored_sentences.sort(key=lambda x: -x[0]) of the first n pairs: by falling
\* score, the pairs of one score in the order of the list (the sort is stable)
RECURSIVE SortByScore(_, _)
SortByScore(scored, n) ==
    IF n = 0 THEN <<>> ELSE InsertByScore(SortByScore(scored, n - 1), scored[n])

\* the loop that builds the summary, from the k-th sentence of the sorted list on
RECURSIVE BuildSummary(_, _, _, _)
BuildSummary(sorted, k, summary, max) ==
    IF k > Len(sorted) THEN summary
    ELSE LET sent == sorted[k][2]
         IN  IF Len(summary) + Len(sent) + 1 <= max
             THEN BuildSummary(sorted, k + 1,
                               IF summary # "" THEN Strip(summary \o " " \o sent) ELSE sent,
                               max)
             ELSE IF summary = "" THEN PySlice(sent, max - 3) \o "..."
             ELSE BuildSummary(sorted, k + 1, summary, max)

\* str.rfind(c): the last index (from 0) of the character c in s, or -1
RFind(s, c) ==
    LET at == {i \in 1..Len(s) : CharAt(s, i) = c}
    IN  IF at = {} THEN -1 ELSE (CHOOSE i \in at : \A j \in at : j <= i) - 1

\* the beginning of the text, for a loop that built nothing
Beginning(text, max) ==
    IF Len(text) <= max THEN text
    ELSE LET truncated == PySlice(text, max)
             last_period == RFind(truncated, ".")
             last_space == RFind(truncated, " ")
         IN  IF 2 * last_period > max THEN PySlice(truncated, last_period + 1)
             ELSE IF last_space > 0 THEN PySlice(truncated, last_space) \o "..."
             ELSE truncated \o "..."

\* the default of max_chars
DefaultMaxChars == 280

\* create_summary
create_summary(abstract, max) ==
    IF abstract = "" THEN ""
    ELSE LET cleaned == RemoveAuthors(RemoveHeading(RemoveHeading(RemoveLabel(abstract),
                                                                  "Abstract"), "Summary"))
             text == Strip(Squeeze(cleaned))
         IN  IF Len(text) < 50 THEN ""
             ELSE LET sentences == Sentences(text)
                      scored == ScoreSentences(sentences, Len(sentences))
                      summary == BuildSummary(SortByScore(scored, Len(scored)), 1, "", max)
                  IN  IF summary = "" /\ text # "" THEN Beginning(text, max) ELSE summary

----------------------------------------------------------------------------
(* generate.py: the DOI of a url, the enrichment loop and the ranker *)

\* the index of the last character of the longest run of characters of s from
\* index i on that Contains(chars, _) = member holds for; i - 1 for an empty run
RunEnd(s, i, chars, member) ==
    CHOOSE j \in (i - 1)..Len(s) :
        /\ \A k \in i..j : Contains(chars, CharAt(s, k)) = member
        /\ (j = Len(s) \/ Contains(chars, CharAt(s, j + 1)) # member)

\* a match of 10\.\d+/[^stop]+ at index i of s: the index of its last character,
\* or 0 when there is none
DoiEnd(s, i, stop) ==
    IF i + 2 > Len(s) \/ SubSeq(s, i, i + 2) # "10." THEN 0
    ELSE LET d == RunEnd(s, i + 3, Digits, TRUE)
         IN  IF d < i + 3 \/ d + 1 > Len(s) \/ CharAt(s, d + 1) # "/" THEN 0
             ELSE LET e == RunEnd(s, d + 2, stop, FALSE)
                  IN  IF e < d + 2 THEN 0 ELSE e

\* re.search(prefix(10\.\d+/[^stop]+), url): group 1 of the leftmost match
SearchDoi(url, prefix, stop) ==
    LET at == {i \in 1..Len(url) :
                  /\ i + Len(prefix) - 1 <= Len(url)
                  /\ SubSeq(url, i, i + Len(prefix) - 1) = prefix
                  /\ DoiEnd(url, i + Len(prefix), stop) > 0}
    IN  IF at = {} THEN None
        ELSE LET i == CHOOSE i \in at : \A j \in at : i <= j
             IN  Some(SubSeq(url, i + Len(prefix), DoiEnd(url, i + Len(prefix), stop)))

\* str.rstrip(chars)
RStrip(s, chars) ==
    LET k == CHOOSE k \in 0..Len(s) :
                 /\ \A i \in (k + 1)..Len(s) : Contains(chars, CharAt(s, i))
                 /\ (k = 0 \/ ~Contains(chars, CharAt(s, k)))
    IN  SubSeq(s, 1, k)

\* extract_doi: the first of the three patterns that matches decides
extract_doi(url) ==
    LET first == SearchDoi(url, "doi.org/", " ?#")
        second == SearchDoi(url, "doi/", " ?#")
        third == SearchDoi(url, "", " ?#&")
    IN  IF url = "" THEN ""
        ELSE IF first # None THEN RStrip(Val(first), ".,;:")
        ELSE IF second # None THEN RStrip(Val(second), ".,;:")
        ELSE IF third # None THEN RStrip(Val(third), ".,;:")
        ELSE ""

\* the body of the enrichment loop: the entries it writes into the dict of a row
Enrich(paper) ==
    LET topics == classify_topic(paper.title, paper.abstract)
        with_topics == paper @@ [topics |-> topics]
        daily == calculate_daily_brief_score(with_topics)
    IN  paper @@
        [doi |-> extract_doi(paper.url),
         summary |-> create_summary(paper.abstract, DefaultMaxChars),
         relevance_score |-> calculate_relevance_score(paper.title, paper.abstract,
                                                       paper.category, paper.source),
         topics |-> topics,
         topic_priority |-> get_topic_priority_score(topics),
         daily_brief_score |-> daily.value,
         is_covered |-> daily.is_covered,
         daily_brief_fit |-> calculate_daily_brief_fit_score(with_topics),
         is_open_access |-> is_open_access(paper.source, paper.url)]

\* get_sort_date: the timestamp of the day, in seconds (the clock is read as
\* UTC); 0 for a string strptime rejects
get_sort_date(p) ==
    LET date_str == IF p.published_date # None /\ p.published_date # Some("")
                    THEN Val(p.published_date)
                    ELSE IF p.fetched_date # None /\ p.fetched_date # Some("")
                    THEN Val(p.fetched_date)
                    ELSE "1900-01-01"
    IN  IF Parses(date_str) THEN DayNumber(date_str) * 86400 ELSE 0

\* the key of the sort
SortKey(p) ==
    <<-p.daily_brief_fit, -get_sort_date(p), -(IF p.is_open_access THEN 1 ELSE 0)>>

\* a < b for two keys, as Python compares tuples
KeyLess(a, b) ==
    \/ a[1] < b[1]
    \/ a[1] = b[1] /\ a[2] < b[2]
    \/ a[1] = b[1] /\ a[2] = b[2] /\ a[3] < b[3]

\* the insertion, were the dict put before the dicts of its key
InsertByKey_before(sorted, p) ==
    LET k == Cardinality({i \in 1..Len(sorted) : KeyLess(SortKey(sorted[i]), SortKey(p))})
    IN  SubSeq(sorted, 1, k) \o <<p>> \o SubSeq(sorted, k + 1, Len(sorted))

\* the list sorted by rising key, with the dict p put behind the dicts of its key
InsertByKey(sorted, p) ==
    LET k == Cardinality({i \in 1..Len(sorted) : ~KeyLess(SortKey(p), SortKey(sorted[i]))})
    IN  SubSeq(sorted, 1, k) \o <<p>> \o SubSeq(sorted, k + 1, Len(sorted))

\* papers.sort(key=...) of the first n dicts: by rising key, the dicts of one key
\* in the order of the list (the sort is stable)
RECURSIVE SortPapers(_, _)
SortPapers(list, n) ==
    IF n = 0 THEN <<>> ELSE InsertByKey(SortPapers(list, n - 1), list[n])

----------------------------------------------------------------------------
(* the scoring functions applied to a drawn document *)

Titles ==
    {"RBI cuts repo rate by 25 bps amid inflation concerns",
     "Editorial: climate change, carbon emission and pollution",
     "Nike: an ethnographic account",
     "Caste, Tribal Kinship, Marriage Ritual and Family Tradition",
     "GDP, Inflation, Equity and Credit: RBI and SEBI on the Stock Market",
     "Inside Meesho's IPO: the business model of a startup firm",
     "Green transition at a firm",
     "Letter to the Editor on bank credit"}

Abstracts ==
    {"",
     "A literature review and empirical analysis of poverty alleviation, social welfare and inequality.",
     "RBI Working Paper: Bank credit growth and equity valuation in India."}

\* where a document comes from: the source, the category its producer assigns
\* and the date it was published on
Origins ==
    {<<"RBI", "policy", Some("2025-12-25")>>,
     <<"CPR", "policy", None>>,
     <<"World Development", "economics", Some("2025-08-01")>>}

\* the dict the enrichment loop hands to the scoring functions: the stored
\* fields and the topics entry the loop has written
PaperDict(title, abstract, o) ==
    [title |-> title, abstract |-> abstract, source |-> o[1], category |-> o[2],
     published_date |-> o[3], topics |-> classify_topic(title, abstract)]

Docs == {PaperDict(t, a, o) : t \in Titles, a \in Abstracts, o \in Origins}

ClassifyTopic ==
    /\ out' = [op |-> "classify_topic", value |-> classify_topic(doc.title, doc.abstract)]
    /\ UNCHANGED <<papers, ret, doc, max_chars, run, now>>

CalculateRelevanceScore ==
    /\ out' = [op |-> "calculate_relevance_score",
               value |-> calculate_relevance_score(doc.title, doc.abstract,
                                                   doc.category, doc.source)]
    /\ UNCHANGED <<papers, ret, doc, max_chars, run, now>>

\* the call returns the value and leaves the is_covered entry in the dict
CalculateDailyBriefScore ==
    LET r == calculate_daily_brief_score(doc)
    IN  /\ out' = [op |-> "calculate_daily_brief_score", value |-> r.value,
                   is_covered |-> r.is_covered]
        /\ doc' = [is_covered |-> r.is_covered] @@ doc
        /\ UNCHANGED <<papers, ret, max_chars, run, now>>

CalculateDailyBriefFitScore ==
    /\ out' = [op |-> "calculate_daily_brief_fit_score",
               value |-> calculate_daily_brief_fit_score(doc)]
    /\ UNCHANGED <<papers, ret, doc, max_chars, run, now>>

InitScore ==
    /\ now = Today
    /\ papers = <<>>
    /\ ret = [op |-> "none", value |-> FALSE, raised |-> "none"]
    /\ doc \in Docs
    /\ max_chars = 0
    /\ out = [op |-> "none"]
    /\ run = NoRun

NextScore ==
    \/ ClassifyTopic
    \/ CalculateRelevanceScore
    \/ CalculateDailyBriefScore
    \/ CalculateDailyBriefFitScore

SpecScore == InitScore /\ [][NextScore]_vars

----------------------------------------------------------------------------
(* create_summary applied to a drawn abstract and budget *)

SummaryAbstracts ==
    {"",
     "RBI Working Paper: Bank credit growth and equity valuation in India.",
     "Abstract: We find that rate cuts raise bank lending in India. The effect is significant for small firms. It fades within a year.",
     "This paper studies how monetary policy transmission works through the bank lending channel in emerging markets",
     "Author(s): Asha Rao. We examine  the impact of tariffs on exports!  Are the gains lasting? Evidence suggests they are not.",
     "  Summary:   Short note."}

\* the largest budget drawn besides the default
MaxChars == 120

Budgets == (1..MaxChars) \cup {DefaultMaxChars}

CreateSummary ==
    /\ out' = [op |-> "create_summary", value |-> create_summary(doc.abstract, max_chars)]
    /\ UNCHANGED <<papers, ret, doc, max_chars, run, now>>

InitSummary ==
    /\ now = Today
    /\ papers = <<>>
    /\ ret = [op |-> "none", value |-> FALSE, raised |-> "none"]
    /\ doc \in {[NoDoc EXCEPT !.abstract = a] : a \in SummaryAbstracts}
    /\ max_chars \in Budgets
    /\ out = [op |-> "none"]
    /\ run = NoRun

NextSummary == CreateSummary

SpecSummary == InitSummary /\ [][NextSummary]_vars

----------------------------------------------------------------------------
(* the ranker applied to a drawn list of enriched documents *)

\* rows of the table: two RBI notes alike but for the url; four journal articles
\* alike but for the url (one of them open by its url) and for the dates (one
\* undated and fetched today, one undated and fetched on the day the others
\* were published, one whose published_date is the text of a scraped listing,
\* as thinktanks.py 201 stores it)
RankRows ==
    {Row(Paper(CasteStudy, "https://doi.org/10.1000/j.7", Some("12 March 2025"))),
     Row(Paper(RbiNote, "https://rbi.org.in/wp/1", Some("2025-12-01"))),
     Row(Paper(RbiNote, "https://rbi.org.in/wp/2", Some("2025-12-01"))),
     Row(Paper(CasteStudy, "https://doi.org/10.1000/j.3", Some("2025-12-01"))),
     Row(Paper(CasteStudy, "https://ideas.repec.org/p/wd/4", Some("2025-12-01"))),
     Row(Paper(CasteStudy, "https://doi.org/10.1000/j.5", None)),
     Row([Paper(CasteStudy, "https://doi.org/10.1000/j.6", None)
            EXCEPT !.fetched_date = Some("2025-12-01")])}

\* the dicts after the enrichment loop
EnrichedRows == {Enrich(r) : r \in RankRows}

\* the longest list drawn
MaxRanked == 3

\* the lists of at most MaxRanked rows, no row twice (the url of a row is unique)
RankLists ==
    UNION {{l \in [1..n -> EnrichedRows] : \A i, j \in 1..n : i # j => l[i] # l[j]} :
             n \in 0..MaxRanked}

\* papers.sort(key=...), in place; ret keeps the list as it was
SortDashboard ==
    /\ papers' = SortPapers(papers, Len(papers))
    /\ ret' = [op |-> "sort", value |-> papers, raised |-> "none"]
    /\ UNCHANGED <<doc, max_chars, out, run, now>>

InitRank ==
    /\ now = Today
    /\ papers \in RankLists
    /\ ret = [op |-> "none", value |-> FALSE, raised |-> "none"]
    /\ doc = NoDoc
    /\ max_chars = 0
    /\ out = [op |-> "none"]
    /\ run = NoRun

NextRank == SortDashboard

SpecRank == InitRank /\ [][NextRank]_vars

----------------------------------------------------------------------------
(* the coverage check applied to a drawn document *)

\* every registered title, and titles that are not registered: one that has half
\* of the words of a registered title, three that have none
CoverageTitles ==
    {COVERED_ARTICLES[i] : i \in 1..Len(COVERED_ARTICLES)}
    \cup {"Outlook for Household Savings",
          "A Study of Rural Caste Dynamics in Village Governance",
          "Nike: an ethnographic account",
          "Notes on a Theorem"}

CoverageAbstracts ==
    {"", "We study quick commerce and the unit economics of dark stores."}

CoverageDocs ==
    {PaperDict(t, a, <<"CPR", "policy", None>>) : t \in CoverageTitles, a \in CoverageAbstracts}

IsTopicCovered ==
    /\ out' = [op |-> "is_topic_covered", value |-> is_topic_covered(doc.title, doc.abstract)]
    /\ UNCHANGED <<papers, ret, doc, max_chars, run, now>>

GetCoveragePenalty ==
    /\ out' = [op |-> "get_coverage_penalty",
               value |-> get_coverage_penalty(doc.title, doc.abstract)]
    /\ UNCHANGED <<papers, ret, doc, max_chars, run, now>>

InitCoverage ==
    /\ now = Today
    /\ papers = <<>>
    /\ ret = [op |-> "none", value |-> FALSE, raised |-> "none"]
    /\ doc \in CoverageDocs
    /\ max_chars = 0
    /\ out = [op |-> "none"]
    /\ run = NoRun

NextCoverage ==
    \/ IsTopicCovered
    \/ GetCoveragePenalty
    \/ CalculateDailyBriefScore

SpecCoverage == InitCoverage /\ [][NextCoverage]_vars

----------------------------------------------------------------------------
(* the topic priority applied to a drawn list of topics *)

\* the topics of the table and one that is not in it
TopicNames == DOMAIN topic_priorities \cup {"Urban Studies"}

\* the longest list of topics drawn
MaxTopics == 2

TopicLists == UNION {[1..n -> TopicNames] : n \in 0..MaxTopics}

\* the caste study without a category, from a source without a bonus, and a
\* document for every list of topics
PriorityDocs ==
    {PaperDict(CasteStudy.title, CasteStudy.abstract, <<CasteStudy.source, "", None>>)}
    \cup {[PaperDict("", "", <<"", "", None>>) EXCEPT !.topics = l] : l \in TopicLists}

GetTopicPriorityScore ==
    /\ out' = [op |-> "get_topic_priority_score",
               value |-> get_topic_priority_score(doc.topics)]
    /\ UNCHANGED <<papers, ret, doc, max_chars, run, now>>

InitPriority ==
    /\ now = Today
    /\ papers = <<>>
    /\ ret = [op |-> "none", value |-> FALSE, raised |-> "none"]
    /\ doc \in PriorityDocs
    /\ max_chars = 0
    /\ out = [op |-> "none"]
    /\ run = NoRun

NextPriority ==
    \/ GetTopicPriorityScore
    \/ CalculateRelevanceScore

SpecPriority == InitPriority /\ [][NextPriority]_vars

----------------------------------------------------------------------------
(* sources/base.py: the India-relevance filter *)

\* the characters of \w of a str pattern, among the characters of the model's texts
WordChars ==
    LET w == "0123456789ABCDEFGHIJKLMNOPQRSTUVWXYZ_abcdefghijklmnopqrstuvwxyz"
    IN  {CharAt(w, i) : i \in 1..Len(w)}

IsWordChar(c) == c \in WordChars

\* the literal keywords of INDIA_KEYWORDS, each written \b<keyword>\b in the source
INDIA_KEYWORDS ==
    { "India", "Indian", "India's", "Subcontinent", "South Asia", "South Asian", "RBI",
      "Reserve Bank of India", "SEBI", "Securities and Exchange Board", "NSE", "BSE",
      "National Stock Exchange", "Bombay Stock Exchange", "NIPFP", "NCAER", "IIM",
      "IIT", "ISB", "ISI Kolkata", "ISI Delhi", "JNU", "DSE", "IGIDR", "CPR", "CSDS",
      "rupee", "rupees", "INR", "Nifty", "Sensex", "Mumbai", "Delhi", "New Delhi",
      "Bangalore", "Bengaluru", "Chennai", "Hyderabad", "Kolkata", "Pune", "Ahmedabad",
      "Jaipur", "Lucknow", "Kanpur", "Nagpur", "Surat", "Maharashtra", "Karnataka",
      "Tamil Nadu", "Gujarat", "Uttar Pradesh", "West Bengal", "Rajasthan", "Kerala",
      "Andhra Pradesh", "Telangana", "Bihar", "Madhya Pradesh", "Odisha", "Punjab",
      "Haryana", "Assam", "Jharkhand", "Chhattisgarh", "Uttarakhand", "Goa",
      "Himachal", "Tata", "Reliance", "Infosys", "Wipro", "TCS", "HDFC", "ICICI",
      "SBI", "Bharti", "Airtel", "Mahindra", "Bajaj", "Adani", "Hindustan", "Larsen",
      "L&T", "Maruti", "Hero", "Birla", "Vedanta", "Jindal", "Godrej", "ITC",
      "Mahatma Gandhi", "MGNREGA", "Aadhaar", "UPI", "Jan Dhan", "Make in India",
      "GST", "Demonetization", "Digital India", "Swachh Bharat", "PMJDY", "PM-KISAN",
      "Startup India", "Skill India", "Ayushman Bharat" }

\* re.compile(kw, re.IGNORECASE): the keyword and the text compared in one case
INDIA_PATTERNS == {Lower(kw) : kw \in INDIA_KEYWORDS}

\* a match of literal kw at position i of text
MatchAt(text, kw, i) == SubSeq(text, i, i + Len(kw) - 1) = kw

\* \b before position i, the character at i being a word character
BoundaryBefore(text, i) == i = 1 \/ ~IsWordChar(CharAt(text, i - 1))

\* \b after position i, the character at i being a word character
BoundaryAfter(text, i) == i = Len(text) \/ ~IsWordChar(CharAt(text, i + 1))

\* pattern.search(text) for \b<kw>\b: kw begins and ends with a word character
Search(text, kw) ==
    \E i \in 1..(Len(text) - Len(kw) + 1) :
        /\ MatchAt(text, kw, i)
        /\ BoundaryBefore(text, i)
        /\ BoundaryAfter(text, i + Len(kw) - 1)

\* pattern.search(text) for \bNBER.*India\b on a text of one line
SearchNberIndia(text) ==
    \E i \in 1..(Len(text) - 8) :
        /\ MatchAt(text, "nber", i)
        /\ BoundaryBefore(text, i)
        /\ \E j \in (i + 4)..(Len(text) - 4) :
              MatchAt(text, "india", j) /\ BoundaryAfter(text, j + 4)

\* whether one of INDIA_PATTERNS is found in a text in lower case
SearchAny(text) == (\E kw \in INDIA_PATTERNS : Search(text, kw)) \/ SearchNberIndia(text)

is_india_relevant(title, abstract, authors) ==
    SearchAny(Lower(title \o " " \o abstract \o " " \o authors))

INDIA_SOURCES ==
    {"RBI", "SEBI", "NIPFP", "NCAER", "EPW", "XKDR", "Vikalpa",
     "IIMB Management Review", "Decision", "IIMK Management Review"}

is_india_source(source) == source \in INDIA_SOURCES

\* BaseFetcher.should_include: whether to include, and the paper with its flag as left
should_include(source_name, paper) ==
    IF is_india_source(source_name)
       \/ is_india_relevant(paper.title, paper.abstract, paper.authors)
    THEN [include |-> TRUE, paper |-> [paper EXCEPT !.is_india_specific = TRUE]]
    ELSE [include |-> FALSE, paper |-> paper]

----------------------------------------------------------------------------
(* sources/journals.py: the producer of a journal's RSS feed.  A feed entry *)
(* is a record of the fields the parser reads: title, doi (prism_doi or    *)
(* dc_identifier), link, summary, author and published (the day of         *)
(* published_parsed, or None).  The texts of the model hold no whitespace  *)
(* but the space and no character reference but &amp;.                     *)

\* str.startswith
StartsWith(s, prefix) == Len(s) >= Len(prefix) /\ SubSeq(s, 1, Len(prefix)) = prefix

\* the index of the first occurrence of the character c in s from index i on, or 0
FindFrom(s, c, i) ==
    LET at == {k \in i..Len(s) : CharAt(s, k) = c}
    IN  IF at = {} THEN 0 ELSE CHOOSE k \in at : \A j \in at : k <= j

\* s.split(c) for a one-character separator
RECURSIVE Split(_, _)
Split(s, c) ==
    LET k == FindFrom(s, c, 1)
    IN  IF k = 0 THEN <<s>>
        ELSE <<SubSeq(s, 1, k - 1)>> \o Split(From(s, k), c)

\* c.join(parts)
RECURSIVE Join(_, _)
Join(parts, c) ==
    IF parts = <<>> THEN ""
    ELSE IF Len(parts) = 1 THEN parts[1]
    ELSE parts[1] \o c \o Join(Tail(parts), c)

params_to_remove ==
    {"dgcid", "af", "ai", "mi", "ui", "rss", "utm_source", "utm_medium",
     "utm_campaign", "utm_content", "utm_term", "fromrss"}

\* the key of a field of a query string
QueryKey(field) ==
    LET k == FindFrom(field, "=", 1)
    IN  IF k = 0 THEN field ELSE SubSeq(field, 1, k - 1)

\* urlencode(parse_qs(query, keep_blank_values=True) without the tracking keys) for
\* a query whose keys are distinct and whose text needs no quoting: empty fields
\* are dropped and a field without a value is written with an empty one
FilterQuery(query) ==
    LET Keep(field) == field # "" /\ Lower(QueryKey(field)) \notin params_to_remove
        kept == SelectSeq(Split(query, "&"), Keep)
    IN  Join([i \in 1..Len(kept) |->
                 IF FindFrom(kept[i], "=", 1) = 0 THEN kept[i] \o "=" ELSE kept[i]], "&")

\* clean_url, for a url with a lower-case scheme and no ;parameters: the fragment
\* goes, the query is filtered
clean_url(url) ==
    LET hash == FindFrom(url, "#", 1)
        whole == IF hash = 0 THEN url ELSE SubSeq(url, 1, hash - 1)
        mark == FindFrom(whole, "?", 1)
        base == IF mark = 0 THEN whole ELSE SubSeq(whole, 1, mark - 1)
        query == IF mark = 0 THEN "" ELSE FilterQuery(From(whole, mark))
    IN  IF url = "" THEN url
        ELSE IF query = "" THEN base ELSE base \o "?" \o query

\* re.sub(r'<[^>]+>', '', text): every tag goes, left to right; <> is no tag
RECURSIVE RemoveTags(_)
RemoveTags(text) ==
    LET open == FindFrom(text, "<", 1)
        close == IF open = 0 THEN 0 ELSE FindFrom(text, ">", open + 1)
    IN  IF open = 0 \/ close = 0 THEN text
        ELSE IF close = open + 1
        THEN SubSeq(text, 1, open) \o RemoveTags(From(text, open))
        ELSE SubSeq(text, 1, open - 1) \o RemoveTags(From(text, close))

\* html.unescape on a text whose only character reference is &amp;
RECURSIVE Unescape(_)
Unescape(text) ==
    LET at == {i \in 1..(Len(text) - 4) : SubSeq(text, i, i + 4) = "&amp;"}
    IN  IF at = {} THEN text
        ELSE LET i == CHOOSE i \in at : \A j \in at : i <= j
             IN  SubSeq(text, 1, i) \o Unescape(From(text, i + 4))

\* JournalFetcher._clean_html
clean_html(text) == Strip(Squeeze(Unescape(RemoveTags(text))))

\* re.search(r'(10\.\d{4,}/[^\s&?#]+)', link): group 1 of the leftmost match
SearchLinkDoi(link) ==
    LET at == {i \in 1..Len(link) :
                  /\ DoiEnd(link, i, " &?#") > 0
                  /\ RunEnd(link, i + 3, Digits, TRUE) >= i + 6}
    IN  IF at = {} THEN None
        ELSE LET i == CHOOSE i \in at : \A j \in at : i <= j
             IN  Some(SubSeq(link, i, DoiEnd(link, i, " &?#")))

\* the url of a feed entry: the DOI of the entry, the DOI in its link, or the
\* cleaned link
EntryUrl(doi, in_link, link) ==
    IF StartsWith(doi, "10.") THEN "https://doi.org/" \o doi
    ELSE IF in_link # None THEN "https://doi.org/" \o Val(in_link)
    ELSE clean_url(link)

\* the end of _parse_entry, with the title and the url it found
EntryPaper(source_name, category, entry, title, url) ==
    IF title = "" \/ url = "" THEN None
    ELSE Some([title |-> title, authors |-> entry.author,
               abstract |-> PySlice(clean_html(entry.summary), 5000), url |-> url,
               source |-> source_name, category |-> category,
               published_date |-> entry.published, fetched_date |-> None,
               is_india_specific |-> FALSE, is_global_important |-> FALSE])

\* JournalFetcher._parse_entry: the Paper of a feed entry, or None
parse_entry(source_name, category, entry) ==
    EntryPaper(source_name, category, entry, Strip(entry.title),
               EntryUrl(entry.doi, SearchLinkDoi(entry.link), entry.link))

\* the cutoff of journals.py, datetime(2024, 1, 1)
journals_CUTOFF_DATE == "2024-01-01"

\* whether the loop skips a paper for its date
TooOld(published_date) ==
    published_date # None
    /\ DayNumber(Val(published_date)) < DayNumber(journals_CUTOFF_DATE)

\* the end of the body of the loop, with the result of should_include
YieldIf(checked) == IF checked.include THEN <<checked.paper>> ELSE <<>>

\* the body of the loop of JournalFetcher.fetch for a parsed entry
JournalPaper(source_name, india_only, paper) ==
    IF paper = None THEN <<>>
    ELSE IF TooOld(Val(paper).published_date) THEN <<>>
    ELSE IF ~india_only THEN paper
    ELSE YieldIf(should_include(source_name, Val(paper)))

\* the body of the loop of JournalFetcher.fetch: what one entry adds to the papers
\* yielded so far
JournalEntry(source_name, category, india_only, entry) ==
    JournalPaper(source_name, india_only, parse_entry(source_name, category, entry))

\* JournalFetcher.fetch: the papers yielded for the entries of the feed
RECURSIVE JournalFetcher_fetch(_, _, _, _)
JournalFetcher_fetch(source_name, category, india_only, entries) ==
    IF entries = <<>> THEN <<>>
    ELSE JournalFetcher_fetch(source_name, category, india_only,
                              SubSeq(entries, 1, Len(entries) - 1))
         \o JournalEntry(source_name, category, india_only, entries[Len(entries)])

----------------------------------------------------------------------------
(* sources/kiel.py and sources/thinktanks.py: two producers that scrape a   *)
(* listing.  A Kiel teaser is a record of what the parser reads: headline  *)
(* (the text of the headline link, None without such a link), href, author *)
(* and date (the text of the date element, None without one).  An ICRIER   *)
(* link is a record of its text and its href.                              *)

\* whether the characters at the indices lo..hi of s are all digits
DigitsAt(s, lo, hi) == hi <= Len(s) /\ \A k \in lo..hi : Contains(Digits, CharAt(s, k))

\* f"{n:02d}" for n in 0..99
TwoDigits(n) == CharAt(Digits, (n \div 10) + 1) \o CharAt(Digits, (n % 10) + 1)

\* re.search(r'(\d{1,2})/(\d{4})', date_text) and the date built from its groups
KielDate(date_text) ==
    LET Two(i) == DigitsAt(date_text, i + 3, i + 6) /\ DigitsAt(date_text, i, i + 1)
                  /\ CharAt(date_text, i + 2) = "/"
        One(i) == DigitsAt(date_text, i + 2, i + 5) /\ DigitsAt(date_text, i, i)
                  /\ CharAt(date_text, i + 1) = "/"
        at == {i \in 1..Len(date_text) : Two(i) \/ One(i)}
    IN  IF at = {} THEN None
        ELSE LET i == CHOOSE i \in at : \A j \in at : i <= j
                 w == IF Two(i) THEN 2 ELSE 1
                 month == ParseInt(SubSeq(date_text, i, i + w - 1))
                 year == SubSeq(date_text, i + w + 1, i + w + 4)
             IN  Some(year \o "-" \o TwoDigits(month) \o "-01")

\* the url of a teaser: a relative link target is made absolute
TeaserUrl(href) ==
    IF href # "" /\ ~StartsWith(href, "http")
    THEN "https://www.kielinstitut.de" \o href ELSE href

\* the date of a teaser
TeaserDate(date) == IF date = None THEN None ELSE KielDate(Strip(Val(date)))

\* the end of _parse_teaser, with the title it found
TeaserPaper(teaser, title) ==
    IF title = "" THEN None
    ELSE Some([title |-> title, authors |-> Strip(teaser.author), abstract |-> "",
               url |-> TeaserUrl(teaser.href), source |-> "Kiel Institute",
               category |-> "economics", published_date |-> TeaserDate(teaser.date),
               fetched_date |-> None,
               is_india_specific |-> FALSE, is_global_important |-> FALSE])

\* KielFetcher._parse_teaser: the Paper of a teaser, or None
parse_teaser(teaser) ==
    IF teaser.headline = None THEN None
    ELSE TeaserPaper(teaser, Strip(Val(teaser.headline)))

\* KielFetcher.should_include: the filter alone, the paper left as it is
Kiel_should_include(paper) ==
    is_india_relevant(paper.title, paper.abstract, paper.authors)

\* the body of the loop of KielFetcher.fetch for a parsed teaser: the urls seen
\* and the papers yielded, after it
KielPaper(paper, seen_urls, yielded) ==
    IF paper = None \/ Val(paper).url \in seen_urls
    THEN [seen_urls |-> seen_urls, yielded |-> yielded]
    ELSE [seen_urls |-> seen_urls \cup {Val(paper).url},
          yielded |-> IF Kiel_should_include(Val(paper)) THEN yielded \o paper
                      ELSE yielded]

\* the loop of KielFetcher.fetch over the first n teasers
KielLoopStep(before, paper) == KielPaper(paper, before.seen_urls, before.yielded)

RECURSIVE KielLoop(_, _)
KielLoop(teasers, n) ==
    IF n = 0 THEN [seen_urls |-> {}, yielded |-> <<>>]
    ELSE KielLoopStep(KielLoop(teasers, n - 1), parse_teaser(teasers[n]))

KielFetcher_fetch(teasers) == KielLoop(teasers, Len(teasers)).yielded

\* the body of the loop of ICRIERFetcher.fetch for a link with its stripped text
IcrierLink(title, href, seen_urls, yielded) ==
    IF \/ ~Contains(href, "/publications/")
       \/ Contains(href, "category") \/ Contains(href, "categorie")
       \/ title = "" \/ Len(title) < 15 \/ href \in seen_urls
    THEN [seen_urls |-> seen_urls, yielded |-> yielded]
    ELSE [seen_urls |-> seen_urls \cup {href},
          yielded |-> Append(yielded,
                             [title |-> title, authors |-> "ICRIER",
                              abstract |-> "ICRIER Working Paper: " \o title,
                              url |-> IF StartsWith(href, "http") THEN href
                                      ELSE "https://icrier.org" \o href,
                              source |-> "ICRIER", category |-> "economics",
                              published_date |-> None, fetched_date |-> None,
                              is_india_specific |-> TRUE,
                              is_global_important |-> FALSE])]

IcrierLoopStep(before, link) ==
    IcrierLink(Strip(link.text), link.href, before.seen_urls, before.yielded)

\* the loop of ICRIERFetcher.fetch over the first n links
RECURSIVE IcrierLoop(_, _)
IcrierLoop(links, n) ==
    IF n = 0 THEN [seen_urls |-> {}, yielded |-> <<>>]
    ELSE IcrierLoopStep(IcrierLoop(links, n - 1), links[n])

ICRIERFetcher_fetch(links) == IcrierLoop(links, Len(links)).yielded

----------------------------------------------------------------------------
(* fetch.py: a fetch run, the journals first and the scraped sources after. *)
(* The configuration file and the network are inputs of the run: the       *)
(* configuration is drawn from the lists below, and each feed or listing   *)
(* serves the entries below at the time of the run.                        *)

Entry(title, doi, link, summary, author, published) ==
    [title |-> title, doi |-> doi, link |-> link, summary |-> summary,
     author |-> author, published |-> published]

EpwFeed ==
    << Entry("Land Leasing and Tenancy Reform ", "",
             "https://www.epw.in/journal/2025/12/land-leasing?utm_source=rss&page=2#top",
             "<p>Tenancy &amp; leasing  laws.</p>", "S. Kumar", Some("2025-03-22")),
       Entry("   ", "", "https://www.epw.in/journal/2025/12/untitled", "", "", None) >>

WorldDevelopmentFeed ==
    << Entry("Cash Transfers in Kenya", "10.1016/j.worlddev.2025.1",
             "https://www.sciencedirect.com/science/article/pii/S1?dgcid=rss_sd_all",
             "Evidence from a field experiment.", "M. Otieno", None),
       Entry("Aadhaar and Welfare Delivery", "",
             "https://www.sciencedirect.com/science/article/pii/S2?dgcid=rss_sd_all",
             "", "R. Sen", Some("2025-06-01")) >>

JdeFeed ==
    << Entry("Monsoon Shocks and Rural Credit in Bihar", "",
             "https://linkinghub.elsevier.com/10.1016/j.jdeveco.2025.103?rss=yes", "",
             "A. Jha", Some("2025-02-10")),
       Entry("Trade Costs in East Africa", "", "https://doi.org/10.1016/j.jdeveco.2025.7",
             "", "L. Okello", Some("2025-02-11")),
       Entry("Delhi Metro and Land Prices", "", "#abstract", "", "", Some("2025-02-12")),
       Entry("Mumbai Mills", "", "https://doi.org/10.1016/j.jdeveco.2023.9", "", "",
             Some("2023-12-31")) >>

\* feedparser.parse(feed_url).entries
Feed(feed_url) ==
    CASE feed_url = "https://www.epw.in/rss" -> EpwFeed
      [] feed_url = "https://rss.sciencedirect.com/publication/science/0305750X"
           -> WorldDevelopmentFeed
      [] feed_url = "https://rss.sciencedirect.com/publication/science/03043878" -> JdeFeed
      [] OTHER -> <<>>

Teaser(headline, href, author, date) ==
    [headline |-> headline, href |-> href, author |-> author, date |-> date]

\* soup.select('article.publication-page-teaser') of the Kiel listing
KielTeasers ==
    << Teaser(Some("India's Export Slowdown"), "/publications/indias-export-slowdown-1/",
              " J. Mohr", Some("Kiel Working Paper 12/2025")),
       Teaser(Some("Trade Policy after Brexit: the Indian View"), "", "", Some("forthcoming")),
       Teaser(Some("German Business Cycle Report"), "https://www.kielinstitut.de/p/3", "",
              None),
       Teaser(None, "/publications/4", "", None) >>

\* the links of the ICRIER page
IcrierLinks ==
    << [text |-> "Digital Public Infrastructure and Firm Growth",
        href |-> "/publications/digital-public-infrastructure/"],
       [text |-> "Working Papers", href |-> "/publications/category/working-papers/"],
       [text |-> "Semiconductor Supply Chains: Options for India",
        href |-> "https://icrier.org/publications/semiconductors/"] >>

\* entries of `journals` in the configuration: a field left out is None
Journals ==
    << [name |-> "EPW", url |-> "https://www.epw.in/rss", category |-> None,
        india_only |-> None],
       [name |-> "World Development",
        url |-> "https://rss.sciencedirect.com/publication/science/0305750X",
        category |-> Some("economics"), india_only |-> Some(FALSE)],
       [name |-> "Journal of Development Economics",
        url |-> "https://rss.sciencedirect.com/publication/science/03043878",
        category |-> Some("economics"), india_only |-> Some(TRUE)],
       [name |-> "Decision", url |-> "", category |-> Some("management"),
        india_only |-> None] >>

\* entries of `sources` in the configuration
Sources ==
    << [name |-> "Kiel Institute", enabled |-> None],
       [name |-> "ICRIER", enabled |-> Some(TRUE)],
       [name |-> "Kiel Institute", enabled |-> Some(FALSE)],
       [name |-> "Brookings", enabled |-> None] >>

\* the names of fetcher_map that the configurations of the model use
fetcher_map == {"Kiel Institute", "ICRIER"}

MaxJournals == 2

MaxSources == 2

Range(s) == {s[i] : i \in 1..Len(s)}

JournalLists == UNION {[1..n -> Range(Journals)] : n \in 0..MaxJournals}

SourceLists == UNION {[1..n -> Range(Sources)] : n \in 0..MaxSources}

\* dict.get(key, default) of a field that may be left out
Get(field, default) == IF field = None THEN default ELSE Val(field)

\* the number of items a producer reads before its iteration fails, if it fails
MaxFailPoint == 1

\* how the iteration of a producer ends: normally, with an exception that the
\* producer's own handler catches after `after` items were read, or with one that
\* reaches the loop of fetch.py
Failures(items) ==
    {[kind |-> "none", after |-> Len(items)]} \cup
    {[kind |-> k, after |-> Min(MaxFailPoint, Len(items))] : k \in {"caught", "raised"}}

\* JournalFetcher(name, url, category, india_only).fetch() on the first n entries
JournalYield(journal, n) ==
    JournalFetcher_fetch(journal.name, Get(journal.category, "economics"),
                         Get(journal.india_only, TRUE), SubSeq(Feed(journal.url), 1, n))

\* fetcher_map[name]().fetch() on the first n items of the listing
SourceYield(name, n) ==
    IF name = "Kiel Institute" THEN KielFetcher_fetch(SubSeq(KielTeasers, 1, n))
    ELSE ICRIERFetcher_fetch(SubSeq(IcrierLinks, 1, n))

Listing(name) == IF name = "Kiel Institute" THEN KielTeasers ELSE IcrierLinks

\* the yields of a journal for the prefixes of its feed of length 0..n
RECURSIVE JournalPrefixes(_, _)
JournalPrefixes(journal, n) ==
    IF n < 0 THEN <<>>
    ELSE Append(JournalPrefixes(journal, n - 1), JournalYield(journal, n))

RECURSIVE JournalTable(_)
JournalTable(k) ==
    IF k = 0 THEN <<>>
    ELSE Append(JournalTable(k - 1),
                JournalPrefixes(Journals[k], Len(Feed(Journals[k].url))))

\* the papers each configured journal yields, for each prefix of its feed
JournalYields == JournalTable(Len(Journals))

RECURSIVE SourcePrefixes(_, _)
SourcePrefixes(name, n) ==
    IF n < 0 THEN <<>>
    ELSE Append(SourcePrefixes(name, n - 1), SourceYield(name, n))

\* the papers each scraped source yields, for each prefix of its listing
SourceYields ==
    [kiel |-> SourcePrefixes("Kiel Institute", Len(KielTeasers)),
     icrier |-> SourcePrefixes("ICRIER", Len(IcrierLinks))]

YieldOfJournal(journal, n) ==
    JournalYields[CHOOSE k \in 1..Len(Journals) : Journals[k] = journal][n + 1]

YieldOfSource(name, n) ==
    IF name = "Kiel Institute" THEN SourceYields.kiel[n + 1] ELSE SourceYields.icrier[n + 1]

\* for paper in fetcher.fetch(): if db.insert_paper(paper): count += 1
RECURSIVE InsertAll(_, _)
InsertAll(rows, yielded) ==
    IF yielded = <<>> THEN [rows |-> rows, count |-> 0]
    ELSE LET first == insert_paper(rows, Head(yielded))
             rest == InsertAll(first.rows, Tail(yielded))
         IN  [rows |-> rest.rows,
              count |-> rest.count + (IF first.value THEN 1 ELSE 0)]

\* where the run stands after the try statement of a source, were the exception
\* not handled
AfterTry_unhandled(phase, failure) == IF failure = "raised" THEN "aborted" ELSE phase

\* where the run stands after the try statement of a source: `except Exception`
\* prints and the loop goes on
AfterTry(phase, failure) == phase

\* the try statement of one source: the papers are inserted as they are yielded,
\* and the count joins the total unless an exception reached the loop
Attempt(name, yielded, failure) ==
    LET r == InsertAll(papers, yielded)
    IN  /\ papers' = r.rows
        /\ run' = [run EXCEPT !.phase = AfterTry(@, failure),
                              !.i = @ + 1,
                              !.total = IF failure = "raised" THEN @ ELSE @ + r.count,
                              !.log = Append(@, [name |-> name, at |-> run.i,
                                                 phase |-> run.phase,
                                                 failure |-> failure,
                                                 yielded |-> yielded])]

\* one iteration of the loop of fetch_journals
FetchJournal ==
    /\ run.phase = "journals"
    /\ run.i <= Len(run.journals)
    /\ LET journal == run.journals[run.i]
       IN  IF journal.url = ""
           THEN run' = [run EXCEPT !.i = @ + 1] /\ UNCHANGED papers
           ELSE \E f \in Failures(Feed(journal.url)) :
                    Attempt(journal.name, YieldOfJournal(journal, f.after), f.kind)
    /\ UNCHANGED <<ret, doc, max_chars, out, now>>

\* return total, and main goes on to the scraped sources
FetchJournalsReturn ==
    /\ run.phase = "journals"
    /\ run.i > Len(run.journals)
    /\ run' = [run EXCEPT !.phase = "sources", !.i = 1, !.total = 0,
                          !.total_new = @ + run.total]
    /\ UNCHANGED <<papers, ret, doc, max_chars, out, now>>

\* one iteration of the loop of fetch_scraped_sources
FetchScrapedSource ==
    /\ run.phase = "sources"
    /\ run.i <= Len(run.sources)
    /\ LET source == run.sources[run.i]
       IN  IF ~Get(source.enabled, TRUE) \/ source.name \notin fetcher_map
           THEN run' = [run EXCEPT !.i = @ + 1] /\ UNCHANGED papers
           ELSE \E f \in Failures(Listing(source.name)) :
                    Attempt(source.name, YieldOfSource(source.name, f.after), f.kind)
    /\ UNCHANGED <<ret, doc, max_chars, out, now>>

\* return total, and main prints the number of new papers
FetchScrapedSourcesReturn ==
    /\ run.phase = "sources"
    /\ run.i > Len(run.sources)
    /\ run' = [run EXCEPT !.phase = "done", !.total = 0, !.total_new = @ + run.total]
    /\ UNCHANGED <<papers, ret, doc, max_chars, out, now>>

InitFetch ==
    /\ now = Today
    /\ papers = <<>>
    /\ ret = [op |-> "none", value |-> FALSE, raised |-> "none"]
    /\ doc = NoDoc
    /\ max_chars = 0
    /\ out = [op |-> "none"]
    /\ \E journals \in JournalLists, sources \in SourceLists :
           run = [phase |-> "journals", journals |-> journals, sources |-> sources,
                  i |-> 1, total |-> 0, total_new |-> 0, log |-> <<>>]

NextFetch ==
    \/ FetchJournal
    \/ FetchJournalsReturn
    \/ FetchScrapedSource
    \/ FetchScrapedSourcesReturn

\* main runs its statements one after the other until it returns
SpecFetch == InitFetch /\ [][NextFetch]_vars /\ WF_vars(NextFetch)

----------------------------------------------------------------------------
(* generate.py: a generation pass over the store *)

\* the enrichment loop over the list that get_all_papers returned
RECURSIVE EnrichAll(_, _)
EnrichAll(list, n) ==
    IF n = 0 THEN <<>> ELSE Append(EnrichAll(list, n - 1), Enrich(list[n]))

\* generate_dashboard up to the rendering: the ranked lists that may be handed to
\* the template, one for each order in which the query may return the rows
generate_dashboard(rows) ==
    {SortPapers(EnrichAll(list, Len(list)), Len(list)) :
        list \in get_all_papers(rows, None, None, FALSE, DefaultLimit, TRUE)}

\* the pass, were the enriched dicts written back to the table
GenerateDashboard_persisting ==
    /\ \E ranked \in generate_dashboard(papers) :
          /\ ret' = [op |-> "generate_dashboard", value |-> ranked, raised |-> "none"]
          /\ papers' = ranked
    /\ UNCHANGED <<doc, max_chars, out, run, now>>

\* generate_dashboard(): the rows are read into dicts, the dicts are enriched and
\* ranked, and the table is left as it is
GenerateDashboard ==
    /\ \E ranked \in generate_dashboard(papers) :
          ret' = [op |-> "generate_dashboard", value |-> ranked, raised |-> "none"]
    /\ UNCHANGED <<papers, doc, max_chars, out, run, now>>

\* the documents offered to the store before a pass: three urls, one of them with
\* a date before the cutoff as well
GenerateCandidates ==
    {Paper(RbiNote, "https://rbi.org.in/wp/1", Some("2025-12-01")),
     Paper(RbiNote, "https://rbi.org.in/wp/2", None),
     Paper(CasteStudy, "https://doi.org/10.1000/j.3", Some("2025-12-01")),
     Paper(CasteStudy, "https://doi.org/10.1000/j.3", Some("2023-12-31"))}

InitGenerate ==
    /\ now = Today
    /\ papers = <<>>
    /\ ret = [op |-> "none", value |-> FALSE, raised |-> "none"]
    /\ doc = NoDoc
    /\ max_chars = 0
    /\ out = [op |-> "none"]
    /\ run = NoRun

NextGenerate ==
    \/ \E paper \in GenerateCandidates : InsertPaper(paper)
    \/ GenerateDashboard

SpecGenerate == InitGenerate /\ [][NextGenerate]_vars

----------------------------------------------------------------------------
(* the scores of one document computed again, the same day or a later one *)

\* a day on which a later generation pass runs
LaterDay == "2026-02-20"

\* the clock moves on between two calls
Tick ==
    /\ now = Today
    /\ now' = LaterDay
    /\ UNCHANGED <<papers, ret, doc, max_chars, out, run>>

\* the documents scored again: an RBI note and an ethnography from every origin
AgainDocs ==
    {d \in Docs : d.title \in {"RBI cuts repo rate by 25 bps amid inflation concerns",
                               "Nike: an ethnographic account"}}

InitAgain ==
    /\ now = Today
    /\ papers = <<>>
    /\ ret = [op |-> "none", value |-> FALSE, raised |-> "none"]
    /\ doc \in AgainDocs
    /\ max_chars = 0
    /\ out = [op |-> "none"]
    /\ run = NoRun

NextAgain ==
    \/ CalculateRelevanceScore
    \/ CalculateDailyBriefScore
    \/ CalculateDailyBriefFitScore
    \/ GetTopicPriorityScore
    \/ Tick

SpecAgain == InitAgain /\ [][NextAgain]_vars

----------------------------------------------------------------------------
(* sources/cag.py: the producer of the audit reports, page by page.  The    *)
(* server is an input of the run: each GET ends in a response or in an      *)
(* exception, and a page that was read holds some number of listings that   *)
(* parse to a paper.  The log keeps the GETs, the sleeps, the yields and    *)
(* the errors the producer prints.                                          *)

MAX_PAGES == 3

\* the default of _get_with_retry's retries
Retries == 3

\* the seconds of time.sleep between two attempts
SleepSeconds == 2

\* the most papers a page of the model yields
MaxListings == 2

\* how session.get and raise_for_status may end: a response with a good status,
\* the two exceptions the loop catches, and the exception of a bad status
GetOutcomes == {"ok", "ConnectionError", "Timeout", "HTTPError"}

\* the exceptions of the except clause of _get_with_retry
Caught == {"ConnectionError", "Timeout"}

\* after a caught exception, were the sleep taken after the last attempt as well
AfterFailure_always_sleep(attempt, retries) == "sleep"

\* after a caught exception in the attempt of index attempt (from 0)
AfterFailure(attempt, retries) == IF attempt < retries - 1 THEN "sleep" ELSE "raise"

\* the except clause of fetch: the error is printed and the loop over the pages
\* is left; nothing is raised to the caller of the generator
PageFailed(log, error) ==
    [run EXCEPT !.phase = "done",
                !.log = Append(log, [page |-> run.page, kind |-> "error", error |-> error])]

\* one attempt of _get_with_retry
CagGet ==
    /\ run.phase = "get"
    /\ \E outcome \in GetOutcomes :
         LET log == Append(run.log, [page |-> run.page, kind |-> "get",
                                     attempt |-> run.attempt, outcome |-> outcome])
         IN  run' = IF outcome = "ok" THEN [run EXCEPT !.phase = "parse", !.log = log]
                    ELSE IF outcome \in Caught
                    THEN IF AfterFailure(run.attempt, Retries) = "sleep"
                         THEN [run EXCEPT !.phase = "sleep", !.log = log]
                         ELSE PageFailed(log, outcome)
                    ELSE PageFailed(log, outcome)
    /\ UNCHANGED <<papers, ret, doc, max_chars, out, now>>

\* time.sleep(2) and the next round of the loop; a loop that runs out returns
\* None, and response.content in fetch raises AttributeError
CagSleep ==
    /\ run.phase = "sleep"
    /\ LET log == Append(run.log, [page |-> run.page, kind |-> "sleep",
                                   seconds |-> SleepSeconds])
       IN  run' = IF run.attempt + 1 < Retries
                  THEN [run EXCEPT !.phase = "get", !.attempt = @ + 1, !.log = log]
                  ELSE PageFailed(log, "AttributeError")
    /\ UNCHANGED <<papers, ret, doc, max_chars, out, now>>

\* the listings of a page that was read: the papers are yielded, a page without
\* one ends the loop, and so does the last page
CagParse ==
    /\ run.phase = "parse"
    /\ \E count \in 0..MaxListings :
         LET log == Append(run.log, [page |-> run.page, kind |-> "yield", count |-> count])
         IN  run' = IF count = 0 \/ run.page = MAX_PAGES
                    THEN [run EXCEPT !.phase = "done", !.log = log]
                    ELSE [run EXCEPT !.phase = "get", !.page = @ + 1, !.attempt = 0,
                                     !.log = log]
    /\ UNCHANGED <<papers, ret, doc, max_chars, out, now>>

InitCag ==
    /\ now = Today
    /\ papers = <<>>
    /\ ret = [op |-> "none", value |-> FALSE, raised |-> "none"]
    /\ doc = NoDoc
    /\ max_chars = 0
    /\ out = [op |-> "none"]
    /\ run = [phase |-> "get", page |-> 1, attempt |-> 0, log |-> <<>>]

NextCag ==
    \/ CagGet
    \/ CagSleep
    \/ CagParse

SpecCag == InitCag /\ [][NextCag]_vars

----------------------------------------------------------------------------
(* claims about the document store *)

UrlsOf(rows) == {rows[i].url : i \in 1..Len(rows)}

RowSet(rows) == {rows[i] : i \in 1..Len(rows)}

\* the document is dated, and its date is a day before the cutoff day
DatedBeforeCutoff(row) ==
    /\ row.published_date # None
    /\ DayNumber(Val(row.published_date)) < DayNumber(CUTOFF_DATE)

\* the rows of `rows` that are not dated before the cutoff, in order
Unexpired(rows) ==
    LET Keep(row) == ~DatedBeforeCutoff(row)
    IN  SelectSeq(rows, Keep)

\* a step that is a call of insert_paper, with the document ret' records
InsertStep == ret'.op = "insert_paper" /\ InsertPaper(ret'.paper)

\* a step that is a call of cleanup_old_papers
CleanupStep == ret'.op = "cleanup_old_papers" /\ CleanupOldPapers

\* C1: the store never holds two rows with one url; an insert of a url that is
\* absent returns true and adds exactly one row, with that url; an insert of a
\* url that is present returns false and adds no row.
C1_InsertIfAbsent ==
    /\ [](\A i, j \in 1..Len(papers) : papers[i].url = papers[j].url => i = j)
    /\ [][InsertStep =>
            IF ret'.paper.url \in UrlsOf(papers)
            THEN ret'.value = FALSE /\ Len(papers') = Len(papers)
            ELSE /\ ret'.value = TRUE
                 /\ Len(papers') = Len(papers) + 1
                 /\ UrlsOf(papers') = UrlsOf(papers) \cup {ret'.paper.url}]_vars

\* a duplicate was just rejected while the store holds two documents
C1_Witness ==
    /\ ret.op = "insert_paper" /\ ret.value = FALSE
    /\ Len(papers) >= 2
    /\ ret.paper.url \in UrlsOf(papers)

\* C2: an insert of a document whose url is stored leaves the table, and so every
\* field of the stored document, as it was; it returns false and raises nothing.
C2_DuplicateKeepsStored ==
    [][(InsertStep /\ ret'.paper.url \in UrlsOf(papers)) =>
            /\ papers' = papers
            /\ ret'.value = FALSE
            /\ ret'.raised = "none"]_vars

\* a duplicate was just rejected whose title, abstract, source and date all differ
\* from those of the stored document with its url
C2_Witness ==
    /\ ret.op = "insert_paper" /\ ret.value = FALSE /\ ret.raised = "none"
    /\ \E i \in 1..Len(papers) :
         /\ papers[i].url = ret.paper.url
         /\ papers[i].title # ret.paper.title
         /\ papers[i].abstract # ret.paper.abstract
         /\ papers[i].source # ret.paper.source
         /\ papers[i].published_date # ret.paper.published_date

IsDefaultListing ==
    /\ ret.op = "get_all_papers"
    /\ ret.source = None /\ ret.india_only = FALSE /\ ret.recent_only = TRUE

\* C3: a default listing returns no document dated before the cutoff and returns
\* every undated document of the store; after a purge no document dated before
\* the cutoff is stored; a purge deletes no undated document.
C3_RetentionAsClaimed ==
    /\ [](/\ (ret.op = "get_all_papers" /\ ret.recent_only) =>
                \A i \in 1..Len(ret.value) : ~DatedBeforeCutoff(ret.value[i])
          /\ IsDefaultListing =>
                \A row \in RowSet(papers) :
                    row.published_date = None => row \in RowSet(ret.value)
          /\ ret.op = "cleanup_old_papers" =>
                \A row \in RowSet(papers) : ~DatedBeforeCutoff(row))
    /\ [][CleanupStep =>
            \A row \in RowSet(papers) :
                row.published_date = None => row \in RowSet(papers')]_vars

\* C4: a purge leaves exactly the documents that are undated or dated on or after
\* the cutoff, unchanged and in place, and returns the number of documents it
\* removed; a purge that follows a purge removes nothing and returns 0.
C4_PurgeExact ==
    [][CleanupStep =>
         /\ papers' = Unexpired(papers)
         /\ ret'.value = Len(papers) - Len(papers')
         /\ ret'.value = Cardinality({i \in 1..Len(papers) : DatedBeforeCutoff(papers[i])})
         /\ (ret.op = "cleanup_old_papers" => ret'.value = 0 /\ papers' = papers)]_vars

\* a purge just removed one document and kept an undated one and one dated on
\* the cutoff day
C4_Witness ==
    /\ ret.op = "cleanup_old_papers" /\ ret.value = 1
    /\ \E row \in RowSet(papers) : row.published_date = None
    /\ \E row \in RowSet(papers) : row.published_date = Some(CUTOFF_DATE)

----------------------------------------------------------------------------
(* claims about the topics and the scores *)

\* the topics of the dict, and the fallback topic
Taxonomy ==
    {topic_keywords[i].topic : i \in 1..Len(topic_keywords)} \cup {"General Economics"}

\* the text the functions of generate.py search, lowercased
LowerText(d) == Lower(d.title \o " " \o d.abstract)

\* C5: classify_topic returns at least one topic, every topic is of the taxonomy
\* and none occurs twice; when no keyword of any topic occurs in the text the
\* result is General Economics alone, and General Economics is never returned
\* next to another topic.
C5_ClassifyTopics ==
    out.op = "classify_topic" =>
        LET topics == out.value
        IN  /\ topics # <<>>
            /\ \A i \in 1..Len(topics) : topics[i] \in Taxonomy
            /\ \A i, j \in 1..Len(topics) : i # j => topics[i] # topics[j]
            /\ (\A k \in 1..Len(topic_keywords) :
                    ~AnyIn(LowerText(doc), topic_keywords[k].keywords))
                 => topics = <<"General Economics">>
            /\ (\E i \in 1..Len(topics) : topics[i] = "General Economics")
                 => Len(topics) = 1

\* a text without any keyword was classified as General Economics
C5_Witness ==
    /\ out.op = "classify_topic"
    /\ \A k \in 1..Len(topic_keywords) : ~AnyIn(LowerText(doc), topic_keywords[k].keywords)
    /\ out.value = <<"General Economics">>

\* C6: the relevance score is an integer from 0 to 100, whatever matches.
C6_RelevanceInRange ==
    out.op = "calculate_relevance_score" => out.value \in 0..100

\* a document whose bonuses add up to more than 100 was scored 100
C6_Witness ==
    /\ out.op = "calculate_relevance_score"
    /\ Count(LowerText(doc), high_relevance) >= 4
    /\ relevance_sum(doc.title, doc.abstract, doc.category, doc.source) > 100
    /\ out.value = 100

\* C7: the editorial-fit score is at least -50, and it is the sum itself whenever
\* the sum is at least -50 (there is no upper clamp).
C7_FitFloor ==
    out.op = "calculate_daily_brief_fit_score" =>
        /\ out.value >= -50
        /\ daily_brief_fit_sum(doc) >= -50 => out.value = daily_brief_fit_sum(doc)

\* an editorial with environment, academic and development keywords from a source
\* with the negative adjustment, whose sum is below -50, was scored -50
C7_Witness ==
    /\ out.op = "calculate_daily_brief_fit_score"
    /\ Contains(Lower(doc.title), "editorial")
    /\ AnyIn(LowerText(doc), env_keywords)
    /\ AnyIn(LowerText(doc), academic_keywords)
    /\ AnyIn(LowerText(doc), dev_keywords)
    /\ doc.source = "CPR"
    /\ daily_brief_fit_sum(doc) < -50
    /\ out.value = -50

\* C8: the daily-suitability score is at least 0.
C8_DailyFloor ==
    out.op = "calculate_daily_brief_score" => out.value >= 0

\* a covered document with a niche keyword and without a recency, topic or keyword
\* bonus, whose sum is negative, was scored 0
C8_Witness ==
    /\ out.op = "calculate_daily_brief_score"
    /\ out.is_covered
    /\ AnyIn(doc.title \o " " \o doc.abstract, niche_keywords)
    /\ RecencyBonus(doc.published_date) = 0
    /\ \A i \in 1..Len(doc.topics) : \A j \in 1..Len(db_topics) : doc.topics[i] # db_topics[j]
    /\ Count(doc.title \o " " \o doc.abstract, story_keywords) = 0
    /\ daily_brief_sum(doc) < 0
    /\ out.value = 0

----------------------------------------------------------------------------
(* claims about the summary *)

\* C9: the summary create_summary returns is never longer than max_chars, for
\* every max_chars from 1 on (1 and 2 included), and the summary of the empty
\* abstract is the empty string.
C9_SummaryWithinBudget ==
    out.op = "create_summary" =>
        /\ Len(out.value) <= max_chars
        /\ doc.abstract = "" => out.value = ""

----------------------------------------------------------------------------
(* claims about the ranker *)

\* the document a comes before the document b by the three keys of the ranker
RanksBefore(a, b) ==
    \/ a.daily_brief_fit > b.daily_brief_fit
    \/ /\ a.daily_brief_fit = b.daily_brief_fit
       /\ get_sort_date(a) > get_sort_date(b)
    \/ /\ a.daily_brief_fit = b.daily_brief_fit
       /\ get_sort_date(a) = get_sort_date(b)
       /\ a.is_open_access /\ ~b.is_open_access

\* the documents a and b are equal on the three keys
SameRank(a, b) == ~RanksBefore(a, b) /\ ~RanksBefore(b, a)

\* the number of times the document d occurs in the list l
Occurrences(l, d) == Cardinality({i \in 1..Len(l) : l[i] = d})

\* C10: after the sort no document stands behind one it comes before by fit
\* score (higher first), then timestamp (later first), then open access (open
\* first); two documents equal on the three keys stand in the order they had in
\* the input; the output holds the documents of the input, each as often.
C10_RankOrder ==
    ret.op = "sort" =>
        LET input == ret.value
        IN  /\ \A k, l \in 1..Len(papers) : k < l => ~RanksBefore(papers[l], papers[k])
            /\ \A i, j \in 1..Len(input), k, l \in 1..Len(papers) :
                   (i < j /\ SameRank(input[i], input[j])
                    /\ papers[k] = input[i] /\ papers[l] = input[j]) => k < l
            /\ Len(papers) = Len(input)
            /\ \A i \in 1..Len(input) :
                   Occurrences(papers, input[i]) = Occurrences(input, input[i])

\* a list of three was sorted: the first document of the output was the last of the
\* input, and the two behind it, equal on the three keys, kept their order
C10_Witness ==
    /\ ret.op = "sort"
    /\ Len(papers) = 3
    /\ papers[1] = ret.value[3] /\ papers[2] = ret.value[1] /\ papers[3] = ret.value[2]
    /\ RanksBefore(papers[1], papers[2])
    /\ SameRank(papers[2], papers[3])
    /\ papers[2] # papers[3]

----------------------------------------------------------------------------
(* claims about the coverage check *)

\* the words of a text that count in the comparison of titles
SignificantWords(s) == WordSet(Lower(s)) \ common_words

\* a registered phrase occurs in the title and abstract of d
PhraseMatch(d) ==
    \E i \in 1..Len(COVERED_TOPICS) : Contains(LowerText(d), Lower(COVERED_TOPICS[i]))

\* more than half of the significant words of a registered title are in the title of d
TitleMatch(d) ==
    \E i \in 1..Len(COVERED_ARTICLES) :
        LET article_words == SignificantWords(COVERED_ARTICLES[i])
        IN  /\ article_words # {}
            /\ 2 * Cardinality(article_words \cap SignificantWords(d.title))
                 > Cardinality(article_words)

\* C11: a document whose title is a registered title has all the significant words
\* of that title (overlap ratio 1) and is flagged covered; a document whose title
\* has no significant word of any registered title and whose text has no
\* registered phrase is not flagged.
C11_CoveredTitles ==
    out.op = "is_topic_covered" =>
        /\ \A i \in 1..Len(COVERED_ARTICLES) :
               doc.title = COVERED_ARTICLES[i] =>
                   LET o == Overlap(COVERED_ARTICLES[i], Lower(doc.title))
                   IN  o[2] > 0 /\ o[1] = o[2] /\ out.value
        /\ ((\A i \in 1..Len(COVERED_ARTICLES) :
                SignificantWords(COVERED_ARTICLES[i]) \cap SignificantWords(doc.title) = {})
            /\ ~PhraseMatch(doc)) => ~out.value

\* a document with a registered title and without a registered phrase was flagged
C11_Witness ==
    /\ out.op = "is_topic_covered"
    /\ \E i \in 1..Len(COVERED_ARTICLES) : doc.title = COVERED_ARTICLES[i]
    /\ ~PhraseMatch(doc)
    /\ out.value

\* C12: is_covered is true exactly when a phrase or a title matches; the penalty
\* is -50 exactly when is_covered is true and 0 otherwise; the scoring writes that
\* flag into the document and adds that penalty to the other terms of the score.
C12_CoverageFlagAndPenalty ==
    LET covered == PhraseMatch(doc) \/ TitleMatch(doc)
        penalty == IF covered THEN -50 ELSE 0
    IN  /\ out.op = "is_topic_covered" => out.value = covered
        /\ out.op = "get_coverage_penalty" => out.value = penalty
        /\ out.op = "calculate_daily_brief_score" =>
               /\ out.is_covered = covered
               /\ out.value = Max(0, penalty + daily_brief_bonuses(doc))

\* a covered document was scored, and the penalty shows in its score
C12_Witness ==
    /\ out.op = "calculate_daily_brief_score"
    /\ out.is_covered
    /\ TitleMatch(doc) /\ ~PhraseMatch(doc)
    /\ daily_brief_bonuses(doc) > 50
    /\ out.value = daily_brief_bonuses(doc) - 50

----------------------------------------------------------------------------
(* claims about the topic priority *)

\* the priority of one topic: that of the table, 0 for a topic outside it
PriorityOf(t) == IF t \in DOMAIN topic_priorities THEN topic_priorities[t] ELSE 0

\* the document of the scenario: the caste study without category or source bonus
IsCasteStudy(d) ==
    /\ d.title = "A Study of Rural Caste Dynamics in Village Governance"
    /\ d.abstract = ""
    /\ d.category = ""
    /\ d.source \notin high_value_sources

\* C13: for the caste study with an empty abstract and no category or source
\* bonus the relevance score is below 50, and the topic priority of its
\* classified topics is at most 0.
C13_CasteStudyDemoted ==
    (IsCasteStudy(doc) /\ doc.topics = classify_topic(doc.title, doc.abstract)) =>
        /\ out.op = "calculate_relevance_score" => out.value < 50
        /\ out.op = "get_topic_priority_score" => out.value <= 0

\* the value is the greatest priority of the topics, 0 for no topic
IsMaxPriority(topics, value) ==
    IF topics = <<>> THEN value = 0
    ELSE /\ \E i \in 1..Len(topics) : value = PriorityOf(topics[i])
         /\ \A i \in 1..Len(topics) : PriorityOf(topics[i]) <= value

\* C14 as stated: the priority is the maximum of the priorities of the topics, 0
\* for an empty list, and no topic added to any list lowers it.
C14_MaxNeverLowered ==
    out.op = "get_topic_priority_score" =>
        /\ IsMaxPriority(doc.topics, out.value)
        /\ \A t \in TopicNames :
               get_topic_priority_score(Append(doc.topics, t)) >= out.value

\* C14, amended: the priority is the maximum of the priorities of the topics, 0
\* for an empty list, and no topic added to a list that has a topic lowers it.
C14_MaxPriority ==
    out.op = "get_topic_priority_score" =>
        /\ IsMaxPriority(doc.topics, out.value)
        /\ doc.topics # <<>> =>
               \A t \in TopicNames :
                   get_topic_priority_score(Append(doc.topics, t)) >= out.value

\* two topics of priorities 20 and 10 were scored 20, which is not their sum
C14_Witness ==
    /\ out.op = "get_topic_priority_score"
    /\ Len(doc.topics) = 2
    /\ PriorityOf(doc.topics[1]) = 20 /\ PriorityOf(doc.topics[2]) = 10
    /\ out.value = 20

----------------------------------------------------------------------------
(* claims about the producers and the fetch run *)

\* the relevance filter on the fields of a document
IsRelevant(p) == is_india_relevant(p.title, p.abstract, p.authors)

\* C15: a document from a source that is not a region source and that matches no
\* relevance pattern in its title, abstract or authors is never inserted into the
\* store.  The journal feed configured with india_only off and the ICRIER producer
\* yield such documents, and the run inserts them.
C15_OnlyRelevantStored ==
    \A i \in 1..Len(papers) : is_india_source(papers[i].source) \/ IsRelevant(papers[i])


\* the documents that the producers attempted so far yielded
Yielded == UNION {Range(run.log[k].yielded) : k \in 1..Len(run.log)}

\* C16: for every document yielded by a producer whose source is not a region
\* source, the flag is_india_specific equals the result of the relevance filter on
\* its title, abstract and authors.  The Kiel producer and a journal feed with
\* india_only off yield matching documents with the flag false, and the ICRIER
\* producer yields a document that matches nothing with the flag true.
C16_FlagIsFilterResult ==
    \A p \in Yielded : ~is_india_source(p.source) => (p.is_india_specific = IsRelevant(p))


\* the entries of the configuration that a run has to attempt, in the order of the
\* configuration: the journals that have a url, then the scraped sources that are
\* enabled and have a producer
Expected ==
    LET journal(i) == [phase |-> "journals", at |-> i, name |-> run.journals[i].name]
        source(i) == [phase |-> "sources", at |-> i, name |-> run.sources[i].name]
        HasUrl(e) == run.journals[e.at].url # ""
        HasProducer(e) == /\ Get(run.sources[e.at].enabled, TRUE)
                          /\ e.name \in fetcher_map
    IN  SelectSeq([i \in 1..Len(run.journals) |-> journal(i)], HasUrl)
        \o SelectSeq([i \in 1..Len(run.sources) |-> source(i)], HasProducer)

\* the entries of the configuration that the run attempted, in the order of the attempts
Attempted ==
    [k \in 1..Len(run.log) |->
        [phase |-> run.log[k].phase, at |-> run.log[k].at, name |-> run.log[k].name]]

IsPrefix(a, b) == Len(a) <= Len(b) /\ \A k \in 1..Len(a) : a[k] = b[k]

\* C17: whatever the configured lists and whichever producers raise, a fetch run
\* attempts the enabled sources that have a producer one after the other in the
\* order of the configuration, each exactly once, and terminates; no exception of a
\* producer leaves the run or keeps a later source from being fetched.
C17_EverySourceOnce ==
    /\ [](/\ IsPrefix(Attempted, Expected)
          /\ run.phase # "aborted"
          /\ (run.phase = "done" => Len(Attempted) = Len(Expected)))
    /\ <>(run.phase = "done")

\* a finished run in which a producer raised and a later source was fetched
C17_Witness ==
    /\ run.phase = "done"
    /\ \E k \in 1..(Len(run.log) - 1) :
          run.log[k].failure = "raised" /\ run.log[k + 1].failure = "none"


\* the attempt that a step of the run makes, when it makes one
AttemptStep == Len(run'.log) = Len(run.log) + 1

\* C18: a producer that raises counts as having produced nothing: the attempt of
\* a source whose producer raises leaves the store as it was.  The run inserts each
\* document as it is yielded, so what was yielded before the exception stays.
C18_RaisingSourceSkipped ==
    [][AttemptStep /\ run'.log[Len(run'.log)].failure = "raised" => papers' = papers]_vars


\* C19: no record with a missing or empty title or url is ever inserted: every
\* stored document has a non-empty title and a non-empty url.  The Kiel producer
\* keeps a teaser whose headline link has no target, and the run stores it under
\* the empty url.
C19_StoredIdentity ==
    \A i \in 1..Len(papers) : papers[i].title # "" /\ papers[i].url # ""


----------------------------------------------------------------------------
(* claims about the generation pass *)

\* the rows that the default listing is meant to show: dated on or after the
\* cutoff, or undated
Listed(row) == SqlGreaterEq(row.published_date, CUTOFF_DATE) \/ row.published_date = None

\* C20: a generation pass enriches and ranks the full contents of the store: every
\* stored document dated on or after the cutoff or undated appears exactly once in
\* the ranked sequence handed to the renderer, however many documents are stored.
\* The pass reads the store through get_all_papers with its default limit, so a
\* store with more such documents than the limit is ranked only in part.
C20_FullStoreRanked ==
    ret.op = "generate_dashboard" =>
        \A i \in 1..Len(papers) :
            Listed(papers[i]) =>
                Cardinality({k \in 1..Len(ret.value) :
                                ret.value[k].url = papers[i].url}) = 1

----------------------------------------------------------------------------
(* claims about the ranker's timestamp *)

\* the timestamp of a date field that parses
Timestamp(date) == DayNumber(Val(date)) * 86400

\* whether strptime accepts the text of a date field
FieldParses(date) == date # None /\ Parses(Val(date))

\* the timestamp by the fallback chain: published_date when it parses, else
\* fetched_date when it parses, else the epoch
FallbackTimestamp(p) ==
    IF FieldParses(p.published_date) THEN Timestamp(p.published_date)
    ELSE IF FieldParses(p.fetched_date) THEN Timestamp(p.fetched_date)
    ELSE 0

----------------------------------------------------------------------------
(* claims about the order in which the summary takes sentences *)

\* the text of an abstract after the cleaning steps of create_summary
CleanedText(abstract) ==
    Strip(Squeeze(RemoveAuthors(RemoveHeading(RemoveHeading(RemoveLabel(abstract),
                                                            "Abstract"), "Summary"))))

\* the sentences of a cleaned text in ranked order: by falling score, the
\* sentences of one score in the order of the text
RankedSentences(text) ==
    SortByScore(ScoreSentences(Sentences(text), Len(Sentences(text))), Len(Sentences(text)))

\* the summary of a loop that ends at the first sentence that does not fit
RECURSIVE GreedyPrefix(_, _, _, _)
GreedyPrefix(sorted, k, summary, max) ==
    IF k > Len(sorted) THEN summary
    ELSE IF Len(summary) + Len(sorted[k][2]) + 1 <= max
    THEN GreedyPrefix(sorted, k + 1,
                      IF summary # "" THEN Strip(summary \o " " \o sorted[k][2])
                      ELSE sorted[k][2],
                      max)
    ELSE IF summary = "" THEN PySlice(sorted[k][2], max - 3) \o "..."
    ELSE summary

\* C22: the summary takes the sentences in ranked order and ends at the first
\* sentence that would carry it past max_chars: no sentence ranked behind a
\* rejected sentence is part of the summary.
C22_StopsAtFirstRejected ==
    (out.op = "create_summary" /\ Len(CleanedText(doc.abstract)) >= 50) =>
        out.value = GreedyPrefix(RankedSentences(CleanedText(doc.abstract)), 1, "", max_chars)

----------------------------------------------------------------------------
(* claims about the environment penalty of the editorial-fit score *)

\* the running score after the six positive keyword buckets
PositiveScore(text) ==
    30 * Count(text, ipo_keywords) + 25 * Count(text, policy_keywords)
    + 20 * Count(text, banking_keywords) + 20 * Count(text, market_keywords)
    + 15 * Count(text, company_keywords) + 15 * Count(text, trade_keywords)

\* 20 per matched environment keyword while the running score is below 30
EnvironmentPenalty(text) ==
    IF PositiveScore(text) < 30 THEN 20 * Count(text, env_keywords) ELSE 0

\* the source adjustment
SourceBonus(source) ==
    CASE source = "RBI" -> 40
      [] source = "SEBI" -> 35
      [] source \in {"NBER", "Quarterly Journal of Economics"} -> 25
      [] source \in {"NIPFP", "NCAER"} -> 15
      [] source \in {"IGIDR", "ISI Delhi"} -> 5
      [] OTHER -> 0

\* the score after the methodology, development and source adjustments are
\* applied to a running score
AdjustedScore(d, running) ==
    running - 15 * Count(LowerText(d), academic_keywords)
            - 15 * Count(LowerText(d), dev_keywords) + SourceBonus(d.source)

\* the score after the penalty for the sources of development papers
ThinkTankPenalty(d, score) ==
    score - (IF d.source \in {"CPR", "Ashoka CEDA"} /\ score < 20 THEN 10 ELSE 0)

\* the score after the suppression penalty
Suppression(d, score) ==
    score - (IF Contains(Lower(d.title), "editor") THEN 100 ELSE 0)

----------------------------------------------------------------------------
(* claims about the scores as functions of the document *)

\* a step that computes one of the four scores
ScoreStep ==
    \/ CalculateRelevanceScore
    \/ CalculateDailyBriefScore
    \/ CalculateDailyBriefFitScore
    \/ GetTopicPriorityScore

\* the step leaves every entry of the document as it was and adds none
DocumentKept == doc' = doc

\* the step computes the score the call before it computed, and returns its value
SameValueAgain == out.op = out'.op => out'.value = out.value

\* C24: each of the four scores is a function of title, abstract, category,
\* source, topics and published_date alone: computed twice on one document, on
\* any day and in any order with the other scores, it returns the same value,
\* and computing it changes no field of the document.
C24_ScoresArePure == [][ScoreStep => (DocumentKept /\ SameValueAgain)]_vars

----------------------------------------------------------------------------
(* claims about the store during a generation pass *)

\* the entries the enrichment loop writes into the dict of a row
EnrichedFields ==
    {"doi", "summary", "relevance_score", "topics", "topic_priority",
     "daily_brief_score", "is_covered", "daily_brief_fit", "is_open_access"}

\* a dict without the entries of the enrichment loop
StoredFields(d) == [f \in DOMAIN d \ EnrichedFields |-> d[f]]

\* a step that ends a generation pass
GenerateStep == ret'.op = "generate_dashboard"

\* C25: a generation pass leaves the store as it was: no row is inserted, deleted
\* or modified and no enriched field is written to a row, and each document the
\* pass read is a row of the store, so that a second pass over the unchanged
\* store reads the same rows.
C25_PassLeavesStore ==
    [][GenerateStep =>
          /\ papers' = papers
          /\ \A i \in 1..Len(papers') : DOMAIN papers'[i] \cap EnrichedFields = {}
          /\ \A k \in 1..Len(ret'.value) :
                 \E i \in 1..Len(papers') : papers'[i] = StoredFields(ret'.value[k])]_vars

\* a pass over a store of three rows has read two of them: the dicts it ranked
\* hold the enriched fields and the rows of the store do not
C25_Witness ==
    /\ ret.op = "generate_dashboard"
    /\ Len(papers) = 3
    /\ Len(ret.value) = 2
    /\ \A k \in 1..Len(ret.value) : EnrichedFields \subseteq DOMAIN ret.value[k]
    /\ \A i \in 1..Len(papers) : DOMAIN papers[i] \cap EnrichedFields = {}

----------------------------------------------------------------------------
(* claims about the title-similarity test *)

\* the registered title at index i shares exactly n of its significant words
\* with the title of d
SharedWords(i, d) ==
    Cardinality(SignificantWords(COVERED_ARTICLES[i]) \cap SignificantWords(d.title))

\* the number of significant words of the registered title at index i
RegisteredWords(i) == Cardinality(SignificantWords(COVERED_ARTICLES[i]))

\* C26: for each registered title with a non-empty set R of significant words
\* and the set C of significant words of the candidate's title, the test takes
\* the ratio |R \cap C| / |R| and counts the candidate as covered only when the
\* ratio is strictly above one half: a candidate with exactly half of R is not
\* covered by that title, words of the candidate outside R do not enter the
\* ratio, and a registered title without significant words matches nothing.
C26_TitleSimilarity ==
    out.op = "is_topic_covered" =>
        /\ \A i \in 1..Len(COVERED_ARTICLES) :
               Overlap(COVERED_ARTICLES[i], Lower(doc.title))
                   = <<SharedWords(i, doc), RegisteredWords(i)>>
        /\ ~PhraseMatch(doc) =>
               (out.value <=> \E i \in 1..Len(COVERED_ARTICLES) :
                                  /\ RegisteredWords(i) > 0
                                  /\ 2 * SharedWords(i, doc) > RegisteredWords(i))

\* a title with exactly half of the significant words of a registered title,
\* with words that the registered title does not have and with no registered
\* phrase, was not flagged
C26_Witness ==
    /\ out.op = "is_topic_covered"
    /\ ~PhraseMatch(doc)
    /\ \E i \in 1..Len(COVERED_ARTICLES) :
           /\ RegisteredWords(i) = 2
           /\ SharedWords(i, doc) = 1
           /\ SignificantWords(doc.title) \ SignificantWords(COVERED_ARTICLES[i]) # {}
    /\ ~out.value

----------------------------------------------------------------------------
(* claims about the suppression penalty of the editorial-fit score *)

\* the sum of the editorial-fit score before the suppression penalty
UnsuppressedFit(d) ==
    ThinkTankPenalty(d, AdjustedScore(d, PositiveScore(LowerText(d))
                                         - EnvironmentPenalty(LowerText(d))))

\* C27: the suppression penalty of 100 is taken from the editorial-fit score of
\* exactly the documents whose title holds the word "editorial" in any letter
\* case: the score of a document whose title does not hold it is computed
\* without the penalty.
C27_EditorialOnly ==
    out.op = "calculate_daily_brief_fit_score" =>
        out.value = Max(-50, UnsuppressedFit(doc)
                             - (IF Contains(Lower(doc.title), "editorial") THEN 100 ELSE 0))

----------------------------------------------------------------------------
(* claims about the retries of the CAG producer *)

\* the entry at index k of the log is a GET of the page p
IsGet(k, p) == run.log[k].kind = "get" /\ run.log[k].page = p

\* the entry at index k of the log is a GET that ended in a caught exception
IsCaughtGet(k) == run.log[k].kind = "get" /\ run.log[k].outcome \in Caught

\* the entry behind index k is the error of the page, and it ends the run
EndsInError(k, error) ==
    /\ k + 1 = Len(run.log)
    /\ run.log[k + 1].kind = "error" /\ run.log[k + 1].error = error
    /\ run.log[k + 1].page = run.log[k].page
    /\ run.phase = "done"

\* C28: the GET with retry makes at most 3 attempts for a page; a response with
\* a good status is returned with no further attempt; 2 seconds are waited
\* between a failed attempt and the next one and at no other time; after the
\* third failure the connection or timeout error is raised again; a response
\* with an error status is not retried; a page that fails ends the pagination,
\* and the producer raises nothing to the pipeline.
C28_BoundedRetry ==
    /\ \A p \in 1..MAX_PAGES :
           Cardinality({k \in 1..Len(run.log) : IsGet(k, p)}) <= 3
    /\ \A k \in 1..Len(run.log) :
           /\ (run.log[k].kind = "get" /\ run.log[k].outcome = "ok") =>
                  \A j \in (k + 1)..Len(run.log) : ~IsGet(j, run.log[k].page)
           /\ run.log[k].kind = "sleep" =>
                  /\ run.log[k].seconds = 2
                  /\ k > 1 /\ IsCaughtGet(k - 1)
                  /\ IF k < Len(run.log)
                     THEN IsGet(k + 1, run.log[k].page)
                          /\ run.log[k + 1].attempt = run.log[k - 1].attempt + 1
                     ELSE run.phase = "get"
           /\ (IsCaughtGet(k) /\ run.log[k].attempt < 2) =>
                  IF k < Len(run.log) THEN run.log[k + 1].kind = "sleep"
                  ELSE run.phase = "sleep"
           /\ (IsCaughtGet(k) /\ run.log[k].attempt = 2) =>
                  EndsInError(k, run.log[k].outcome)
           /\ (run.log[k].kind = "get" /\ run.log[k].outcome = "HTTPError") =>
                  EndsInError(k, "HTTPError")
           /\ run.log[k].kind = "error" => (k = Len(run.log) /\ run.phase = "done")

\* the first page was read at the third attempt, after two sleeps, and yielded
\* papers; the second page failed three times and ended the run
C28_Witness ==
    /\ run.phase = "done"
    /\ Len(run.log) = 12
    /\ IsCaughtGet(1) /\ run.log[2].kind = "sleep"
    /\ IsCaughtGet(3) /\ run.log[4].kind = "sleep"
    /\ IsGet(5, 1) /\ run.log[5].outcome = "ok"
    /\ run.log[6].kind = "yield" /\ run.log[6].count > 0
    /\ IsCaughtGet(7) /\ IsCaughtGet(9) /\ IsCaughtGet(11)
    /\ run.log[11].attempt = 2
    /\ run.log[12].kind = "error"

----------------------------------------------------------------------------
(* claims about the total of a fetch run *)

\* C29: the total a fetch run returns, printed as the number of new papers
\* added, is the number of rows the run added to the store (the store of a run
\* of the model is empty at its start), whatever documents are duplicates and
\* whatever producers raise.
C29_TotalIsRowsAdded ==
    run.phase = "done" => run.total_new = Len(papers)

----------------------------------------------------------------------------
(* claims about the letter case of title and abstract *)

\* the document with its title and abstract in lower case
LowerCased(d) == [d EXCEPT !.title = Lower(@), !.abstract = Lower(@)]

\* what the function that was called returns for the document l
SameAsFor(l) ==
    /\ out.op = "classify_topic" => out.value = classify_topic(l.title, l.abstract)
    /\ out.op = "calculate_relevance_score" =>
           out.value = calculate_relevance_score(l.title, l.abstract, l.category, l.source)
    /\ out.op = "calculate_daily_brief_fit_score" =>
           out.value = calculate_daily_brief_fit_score(l)
    /\ out.op = "calculate_daily_brief_score" =>
           /\ out.value = calculate_daily_brief_score(l).value
           /\ out.is_covered = is_topic_covered(l.title, l.abstract)

\* C30: the keywords of the classifier, of the coverage check and of the scorers
\* are matched without regard to letter case: a document and the document that
\* differs from it in the letter case of title and abstract only get the same
\* topics, coverage flag, relevance score, editorial-fit score and
\* daily-suitability score.
C30_CaseInsensitive == SameAsFor(LowerCased(doc))

====
